---- MODULE Spec2Model ----
(***************************************************************************)
(* Verification model of the tutor-ai-pwa repository layer: the field      *)
(* mappers, the generic Supabase/LocalStorage repository and its           *)
(* specialised repositories, the project service, and the attachment       *)
(* storage service (file-name sanitising and the signed-URL cache).        *)
(*                                                                         *)
(* JavaScript values are written as strings.  Undef stands for an absent   *)
(* property (undefined, and the null a remote row carries for a column     *)
(* that was never written).  Numbers are written as numerals ("0", "50").  *)
(* Timestamps are the ISO strings of TimeStamps, in chronological order.   *)
(***************************************************************************)
EXTENDS Integers, Sequences, FiniteSets, TLC

VARIABLES
  mp,          \* field-mapper run: [pc, type, input, row, out]
  sn,          \* sanitizeFileName run: [pc, name, out]
  configured,  \* isSupabaseConfigured() && supabase
  tbl,         \* the repository instance under test (its table name)
  remote,      \* rows of the remote table
  local,       \* the LocalStorage collection of the repository (an array)
  rscores,     \* rows of the remote test_scores table
  lscores,     \* the LocalStorage collection tutor_ai_test_scores
  now,         \* the clock, in milliseconds (an index into TimeStamps)
  ids,         \* number of identifiers generated so far
  ops,         \* number of repository calls made so far
  res,         \* what the last repository call did and returned
  prev,        \* res of the call before it
  cache,       \* signedUrlCache: path -> entry
  clock,       \* Date.now() of the storage service, in minutes
  signed,      \* number of signed URLs the remote store has issued
  ur,          \* what the last storage-service call did and returned
  ls,          \* read of a LocalStorage collection: [pc, reader, raw, raised, value]
  up,          \* uploadAttachment run
  au,          \* the AuthProvider while it starts up
  ac,          \* the AuthService and its local user store
  tg,          \* two toggleStatus calls in progress
  rm,          \* storage-service calls in progress
  dp,          \* an initializeDefaultProjects call in progress
  ip,          \* initializeProjectsOnce of one AuthProvider
  cp           \* the Composer: its state and the uploads in flight

vars == <<mp, sn, configured, tbl, remote, local, rscores, lscores, now, ids,
          ops, res, prev, cache, clock, signed, ur, ls, up, au, ac,
         tg, rm, dp, ip, cp>>

mapVars == <<mp>>
sanVars == <<sn>>
repoVars == <<configured, tbl, remote, local, rscores, lscores, now, ids, ops, res, prev>>
urlVars == <<cache, clock, signed, ur>>
procVars == <<tg, rm, dp, ip, cp>>

auxVars == <<ls, up, au, ac, procVars>>

-----------------------------------------------------------------------------
(* JavaScript values *)

Undef == "undefined"

\* null, where an object is expected
Null == [null |-> "null"]

\* a || b
Or(a, b) == IF a \in {Undef, "", "0"} THEN b ELSE a

\* Attachment[] values: the empty array and a one-image array
JsArrays == {"[]", "[img]"}

\* a && Array.isArray(a): an array, even an empty one, is truthy
IsArray(a) == a \in JsArrays

\* new Date(n).toISOString() for the clock values of the model
TimeStamps == <<"t01", "t02", "t03", "t04", "t05", "t06", "t07", "t08", "t09">>

toISOString(n) == TimeStamps[n]

TimeIndex(s) == CHOOSE i \in 1..Len(TimeStamps) : TimeStamps[i] = s

\* a.localeCompare(b) on two ISO strings of the same format
localeCompare(a, b) ==
  IF TimeIndex(a) < TimeIndex(b) THEN -1
  ELSE IF TimeIndex(a) > TimeIndex(b) THEN 1 ELSE 0

-----------------------------------------------------------------------------
(* Field mappers: camelCase entity <-> snake_case row *)

ProjectFromSupabase(data) ==
  [id |-> data.id, userId |-> data.user_id, name |-> data.name,
   createdAt |-> data.created_at]

ProjectToSupabase(item) ==
  [id |-> item.id, user_id |-> item.userId, name |-> item.name,
   created_at |-> item.createdAt]

ThreadFromSupabase(data) ==
  [id |-> data.id, userId |-> data.user_id, projectId |-> data.project_id,
   title |-> data.title, createdAt |-> data.created_at,
   updatedAt |-> Or(data.updated_at, data.created_at)]

\* a to-row mapper that leaves the title column out
ThreadToSupabaseNoTitle(item) ==
  [id |-> item.id, user_id |-> item.userId, project_id |-> item.projectId,
   title |-> Undef, created_at |-> item.createdAt, updated_at |-> item.updatedAt]

ThreadToSupabase(item) ==
  [id |-> item.id, user_id |-> item.userId, project_id |-> item.projectId,
   title |-> item.title, created_at |-> item.createdAt,
   updated_at |-> item.updatedAt]

MessageFromSupabase(data) ==
  [id |-> data.id, userId |-> Or(data.user_id, ""), threadId |-> data.thread_id,
   role |-> data.role, content |-> data.content, createdAt |-> data.created_at,
   tags |-> data.tags,
   attachments |-> IF IsArray(data.attachments) THEN data.attachments ELSE Undef,
   meta |-> data.meta]

\* user_id is never written: the messages row carries none
MessageToSupabase(item) ==
  [id |-> item.id, user_id |-> Undef, thread_id |-> item.threadId,
   role |-> item.role, content |-> item.content, created_at |-> item.createdAt,
   attachments |-> item.attachments, tags |-> item.tags, meta |-> item.meta]

HomeworkFromSupabase(data) ==
  [id |-> data.id, userId |-> data.user_id, projectId |-> data.project_id,
   title |-> data.title, detail |-> Or(data.detail, ""),
   assignedAt |-> Or(data.assigned_at, ""),
   dueAt |-> Or(data.due_date, Or(data.due_at, "")),
   status |-> Or(data.status, "todo"), attachments |-> data.attachments,
   createdAt |-> data.created_at,
   updatedAt |-> Or(data.updated_at, data.created_at)]

HomeworkToSupabase(item) ==
  [id |-> item.id, user_id |-> item.userId, project_id |-> item.projectId,
   title |-> item.title, detail |-> item.detail, assigned_at |-> item.assignedAt,
   due_date |-> item.dueAt, due_at |-> Undef, status |-> item.status,
   attachments |-> item.attachments, created_at |-> item.createdAt,
   updated_at |-> item.updatedAt]

TestResultFromSupabase(data) ==
  [id |-> data.id, userId |-> data.user_id, projectId |-> data.project_id,
   takenAt |-> Or(data.taken_at, ""), score |-> Or(data.score, "0"),
   maxScore |-> data.max_score, tags |-> Or(data.notes, data.tags),
   attachments |-> data.attachments, createdAt |-> data.created_at,
   updatedAt |-> Or(data.updated_at, data.created_at)]

TestResultToSupabase(item) ==
  [id |-> item.id, user_id |-> item.userId, project_id |-> item.projectId,
   taken_at |-> item.takenAt, score |-> item.score, max_score |-> item.maxScore,
   notes |-> item.tags, tags |-> Undef, attachments |-> item.attachments,
   created_at |-> item.createdAt, updated_at |-> item.updatedAt]

GenericTables == {"projects", "threads", "messages", "homework", "test_results"}

mapSingleFromSupabase(t, data) ==
  CASE t = "projects" -> ProjectFromSupabase(data)
    [] t = "threads" -> ThreadFromSupabase(data)
    [] t = "messages" -> MessageFromSupabase(data)
    [] t = "homework" -> HomeworkFromSupabase(data)
    [] t = "test_results" -> TestResultFromSupabase(data)

mapToSupabase(t, item) ==
  CASE t = "projects" -> ProjectToSupabase(item)
    [] t = "threads" -> ThreadToSupabase(item)
    [] t = "messages" -> MessageToSupabase(item)
    [] t = "homework" -> HomeworkToSupabase(item)
    [] t = "test_results" -> TestResultToSupabase(item)

\* the fields of each entity type (src/src/types/index.ts)
Fields(t) ==
  CASE t = "projects" -> {"id", "userId", "name", "createdAt"}
    [] t = "threads" -> {"id", "userId", "projectId", "title", "createdAt", "updatedAt"}
    [] t = "messages" -> {"id", "userId", "threadId", "role", "content", "createdAt",
                          "tags", "attachments", "meta"}
    [] t = "homework" -> {"id", "userId", "projectId", "title", "detail", "assignedAt",
                          "dueAt", "status", "attachments", "createdAt", "updatedAt"}
    [] t = "test_results" -> {"id", "userId", "projectId", "takenAt", "score",
                              "maxScore", "tags", "attachments", "createdAt", "updatedAt"}

-----------------------------------------------------------------------------
(* Partial entities the mappers are run on: every field absent or present, *)
(* the fields read back through || also with their falsy value.            *)

Opt(S) == {Undef} \cup S

PartialProjects ==
  [id : Opt({"p1"}), userId : Opt({"u1"}), name : Opt({"", "Math"}),
   createdAt : Opt({"t01"})]

PartialThreads ==
  [id : Opt({"th1"}), userId : Opt({"u1"}), projectId : Opt({"p1"}),
   title : Opt({"T"}), createdAt : Opt({"t01"}), updatedAt : Opt({"", "t02"})]

PartialMessages ==
  [id : Opt({"m1"}), userId : Opt({"", "u1"}), threadId : Opt({"th1"}),
   role : Opt({"user"}), content : Opt({"", "hi"}), createdAt : Opt({"t01"}),
   tags : Opt({"", "tag"}), attachments : Opt(JsArrays), meta : Opt({"voice"})]

PartialHomework ==
  [id : Opt({"h1"}), userId : Opt({"u1"}), projectId : Opt({"p1"}),
   title : Opt({"T"}), detail : Opt({"", "d"}), assignedAt : Opt({"", "t01"}),
   dueAt : Opt({"", "t03"}), status : Opt({"todo", "done"}),
   attachments : Opt({"[img]"}), createdAt : Opt({"t01"}),
   updatedAt : Opt({"", "t02"})]

PartialTestResults ==
  [id : Opt({"r1"}), userId : Opt({"u1"}), projectId : Opt({"p1"}),
   takenAt : Opt({"", "t01"}), score : Opt({"0", "50"}), maxScore : Opt({"100"}),
   tags : Opt({"", "tag"}), attachments : Opt({"[img]"}),
   createdAt : Opt({"t01"}), updatedAt : Opt({"", "t02"})]

Partials(t) ==
  CASE t = "projects" -> PartialProjects
    [] t = "threads" -> PartialThreads
    [] t = "messages" -> PartialMessages
    [] t = "homework" -> PartialHomework
    [] t = "test_results" -> PartialTestResults

NoMap == [pc |-> "off", type |-> Undef, input |-> Undef, row |-> Undef, out |-> Undef]

\* row = this.mapToSupabase(e)
MapToRow ==
  /\ mp.pc = "in"
  /\ mp' = [mp EXCEPT !.pc = "row", !.row = mapToSupabase(mp.type, mp.input)]
  /\ UNCHANGED <<sanVars, repoVars, urlVars, auxVars>>

\* out = this.mapSingleFromSupabase(row)
MapFromRow ==
  /\ mp.pc = "row"
  /\ mp' = [mp EXCEPT !.pc = "out", !.out = mapSingleFromSupabase(mp.type, mp.row)]
  /\ UNCHANGED <<sanVars, repoVars, urlVars, auxVars>>

-----------------------------------------------------------------------------
(* sanitizeFileName: a name is a sequence of characters *)

\* a non-ASCII character (U+5BBF)
NonAscii == {"U5BBF"}
Whitespace == {" "}
\* the characters of /[\/\\:*?"<>|]/ the model draws from
Unsafe == {"/"}
Chars == {"a", "B", ".", " ", "/", "U5BBF"}

\* the base name is cut to this many characters
MaxBase == 50

toLowerCase(s) == [i \in 1..Len(s) |-> IF s[i] = "B" THEN "b" ELSE s[i]]

\* index of the last "." of s, 0 when s has none
LastDot(s) ==
  IF \E i \in 1..Len(s) : s[i] = "."
  THEN CHOOSE i \in 1..Len(s) : s[i] = "." /\ \A j \in (i+1)..Len(s) : s[j] # "."
  ELSE 0

\* name.split('.').pop()
AfterLastDot(s) == SubSeq(s, LastDot(s) + 1, Len(s))

\* name.includes('.') ? name.split('.').pop()?.toLowerCase() || 'jpg' : 'jpg'
Extension(name) ==
  IF LastDot(name) = 0 THEN <<"j", "p", "g">>
  ELSE IF toLowerCase(AfterLastDot(name)) = <<>> THEN <<"j", "p", "g">>
  ELSE toLowerCase(AfterLastDot(name))

\* .replace(/\.[^.]+$/, ''): a last dot followed by at least one character
StripExtension(s) ==
  IF LastDot(s) # 0 /\ LastDot(s) < Len(s) THEN SubSeq(s, 1, LastDot(s) - 1) ELSE s

Remove(s, set) == SelectSeq(s, LAMBDA c : c \notin set)

RECURSIVE CollapseRuns(_, _, _)
\* every maximal run of characters of `set` in s replaced by the one character `by`
CollapseRuns(s, set, by) ==
  IF s = <<>> THEN <<>>
  ELSE IF Head(s) \notin set THEN <<Head(s)>> \o CollapseRuns(Tail(s), set, by)
  ELSE IF Len(s) > 1 /\ s[2] \in set THEN CollapseRuns(Tail(s), set, by)
  ELSE <<by>> \o CollapseRuns(Tail(s), set, by)

slice(s, n) == SubSeq(s, 1, IF Len(s) < n THEN Len(s) ELSE n)

RECURSIVE trimStart(_)
trimStart(s) ==
  IF s # <<>> /\ Head(s) \in Whitespace THEN trimStart(Tail(s)) ELSE s

RECURSIVE trimEnd(_)
trimEnd(s) ==
  IF s # <<>> /\ s[Len(s)] \in Whitespace THEN trimEnd(SubSeq(s, 1, Len(s) - 1)) ELSE s

trim(s) == trimEnd(trimStart(s))

BaseName(name) ==
  slice(CollapseRuns(Remove(CollapseRuns(Remove(StripExtension(name), NonAscii),
                                         Whitespace, "_"),
                            Unsafe),
                     {"."}, "."),
        MaxBase)

FinalBaseName(name) ==
  IF trim(BaseName(name)) = <<>> THEN <<"i", "m", "a", "g", "e">> ELSE trim(BaseName(name))

sanitizeFileName(name) == FinalBaseName(name) \o <<".">> \o Extension(name)

\* the file names the model sanitises: Pad letters (0 or PadLen) and a suffix
MaxSuffix == 3
PadLen == 48

RECURSIVE Repeat(_, _)
Repeat(c, n) == IF n = 0 THEN <<>> ELSE <<c>> \o Repeat(c, n - 1)

Suffixes == UNION {[1..n -> Chars] : n \in 0..MaxSuffix}

FileNames == {Repeat("a", k) \o s : k \in {0, PadLen}, s \in Suffixes}

NoSan == [pc |-> "off", name |-> <<>>, out |-> <<>>]

Sanitize ==
  /\ sn.pc = "in"
  /\ sn' = [sn EXCEPT !.pc = "out", !.out = sanitizeFileName(sn.name)]
  /\ UNCHANGED <<mapVars, repoVars, urlVars, auxVars>>

-----------------------------------------------------------------------------
(* Storage service: the signed-URL cache.  The clock counts minutes. *)

\* no URL: the value of a field of a call record that holds none
NoUrl == "none"

Paths == {"u1/th1/a.png", "u1/th1/b.png"}

\* expiresInSec of a call, in minutes
ExpiryChoices == {6, 8}

\* 5 * 60 * 1000 ms: a cached URL with no more validity left than this is refreshed
RefreshMargin == 5

MaxClock == 9
MaxSigned == 3

NoEntry == [url |-> NoUrl, expiresAt |-> 0 - 1]

EmptyCache == [p \in Paths |-> NoEntry]

NoUrlCall ==
  [op |-> "none", path |-> NoUrl, entry |-> NoEntry, at |-> 0, calls |-> 0,
   fresh |-> NoUrl, result |-> NoUrl, raised |-> FALSE, failed |-> FALSE]

\* cached && cached.expiresAt > now + 5 * 60 * 1000
CacheHitGe(cached, t) == cached # NoEntry /\ cached.expiresAt >= t + RefreshMargin

CacheHit(cached, t) == cached # NoEntry /\ cached.expiresAt > t + RefreshMargin

\* the signed URL the remote store issues for its n-th request
SignedUrl(n) == "signed" \o ToString(n)

\* Date.now() advances
UrlTick ==
  /\ clock < MaxClock
  /\ clock' = clock + 1
  /\ UNCHANGED <<cache, signed, ur, mapVars, sanVars, repoVars, auxVars>>

\* createSignedUrl(path, expiresInSec); ok: the remote request succeeds
CreateSignedUrl(path, expiresIn, ok) ==
  LET cached == cache[path]
      call == [NoUrlCall EXCEPT !.op = "createSignedUrl", !.path = path,
                                !.entry = cached, !.at = clock]
  IN
  /\ IF ~configured
     THEN /\ ur' = [call EXCEPT !.raised = TRUE]
          /\ UNCHANGED <<cache, signed>>
     ELSE IF CacheHit(cached, clock)
     THEN /\ ur' = [call EXCEPT !.result = cached.url]
          /\ UNCHANGED <<cache, signed>>
     ELSE IF ~ok
     THEN /\ ur' = [call EXCEPT !.calls = 1, !.raised = TRUE, !.failed = TRUE]
          /\ UNCHANGED <<cache, signed>>
     ELSE /\ signed < MaxSigned
          /\ signed' = signed + 1
          /\ cache' = [cache EXCEPT ![path] =
                         [url |-> SignedUrl(signed + 1), expiresAt |-> clock + expiresIn]]
          /\ ur' = [call EXCEPT !.calls = 1, !.fresh = SignedUrl(signed + 1),
                                !.result = SignedUrl(signed + 1)]
  /\ UNCHANGED <<clock, mapVars, sanVars, repoVars, auxVars>>

\* removeAttachment(path) without signedUrlCache.delete(path)
RemoveAttachmentKeepCache(path, ok) ==
  LET call == [NoUrlCall EXCEPT !.op = "removeAttachment", !.path = path,
                                !.entry = cache[path], !.at = clock]
  IN
  /\ IF ~configured
     THEN ur' = [call EXCEPT !.raised = TRUE]
     ELSE IF ~ok
     THEN ur' = [call EXCEPT !.calls = 1, !.raised = TRUE, !.failed = TRUE]
     ELSE ur' = [call EXCEPT !.calls = 1]
  /\ UNCHANGED <<cache, clock, signed, mapVars, sanVars, repoVars, auxVars>>

\* removeAttachment(path); ok: the remote delete succeeds
RemoveAttachment(path, ok) ==
  LET call == [NoUrlCall EXCEPT !.op = "removeAttachment", !.path = path,
                                !.entry = cache[path], !.at = clock]
  IN
  /\ IF ~configured
     THEN /\ ur' = [call EXCEPT !.raised = TRUE]
          /\ UNCHANGED cache
     ELSE IF ~ok
     THEN /\ ur' = [call EXCEPT !.calls = 1, !.raised = TRUE, !.failed = TRUE]
          /\ UNCHANGED cache
     ELSE /\ ur' = [call EXCEPT !.calls = 1]
          /\ cache' = [cache EXCEPT ![path] = NoEntry]
  /\ UNCHANGED <<clock, signed, mapVars, sanVars, repoVars, auxVars>>

-----------------------------------------------------------------------------
(* Stores and helpers of the repositories *)

MaxTime == 2
MaxOps == 3
MaxIds == 3

Users == {"u1", "u2"}

\* identifiers that are not UUIDs (written by an older, local-only version)
LegacyIds == {"legacy"}

IsValidUuid(id) == id # Undef /\ id \notin LegacyIds

\* generateId(), and the primary key the remote store generates: the n-th UUID
GenId(n) == "id" \o ToString(n)

\* the stores a call works on
Store == [remote |-> remote, local |-> local, rscores |-> rscores,
          lscores |-> lscores, ids |-> ids]

\* { ...a, ...b }
Spread(a, b) ==
  [f \in DOMAIN a \cup DOMAIN b |->
     IF f \in DOMAIN b /\ b[f] # Undef THEN b[f]
     ELSE IF f \in DOMAIN a THEN a[f] ELSE Undef]

\* r.f, undefined when r has no property f
Get(r, f) == IF f \in DOMAIN r THEN r[f] ELSE Undef

\* an object of type t with no property set
Blank(t) == [f \in Fields(t) |-> Undef]

\* items.findIndex(item => item.id === id), 0 standing for -1
FindIndex(items, id) ==
  IF \E i \in 1..Len(items) : items[i].id = id
  THEN CHOOSE i \in 1..Len(items) :
         items[i].id = id /\ \A j \in 1..(i - 1) : items[j].id # id
  ELSE 0

\* items.find(item => item.id === id) || null
LocalFind(items, id) ==
  IF FindIndex(items, id) = 0 THEN Null ELSE items[FindIndex(items, id)]

\* items.filter(item => item.id !== id)
WithoutId(items, id) == SelectSeq(items, LAMBDA e : e.id # id)

\* this.getFromLocalStorage().filter(item => item.userId === userId)
LocalByUser(items, userId) == SelectSeq(items, LAMBDA e : e.userId = userId)

\* the orders in which the rows S can come back
Orders(S) == {q \in [1..Cardinality(S) -> S] : \A r \in S : \E i \in DOMAIN q : q[i] = r}

\* .order('created_at', { ascending: true })
AscByCreated(S) ==
  {q \in Orders(S) : \A i, j \in DOMAIN q :
      i < j => TimeIndex(q[i].created_at) <= TimeIndex(q[j].created_at)}

\* .eq('user_id', userId)
RowsOfUserAll(rows, userId) == rows

RowsOfUser(rows, userId) == {r \in rows : r.user_id = userId}

\* .eq('id', id).single(): the row, when there is exactly one
HasRow(rows, id) == \E r \in rows : r.id = id

RowOf(rows, id) == CHOOSE r \in rows : r.id = id

\* .insert(payload): the remote store fills in the primary key it generates
InsertedRow(payload, n) ==
  [payload EXCEPT !.id = IF payload.id = Undef THEN GenId(n) ELSE payload.id]

\* .update(payload).eq('id', id): the columns the payload carries are overwritten
UpdatedRow(row, payload) ==
  [c \in DOMAIN row |-> IF c \in DOMAIN payload /\ payload[c] # Undef THEN payload[c] ELSE row[c]]

\* this.mapFromSupabase(data)
mapFromSupabase(t, q) == [i \in DOMAIN q |-> mapSingleFromSupabase(t, q[i])]

-----------------------------------------------------------------------------
(* SupabaseBaseRepository.  sess: the session probe found a session;      *)
(* ok: the remote request of the call returns no error.                   *)

\* findAll(userId): the values the call can return
FindAll(t, s, userId, sess, ok) ==
  IF sess /\ ok
  THEN {mapFromSupabase(t, q) : q \in AscByCreated(RowsOfUser(s.remote, userId))}
  ELSE {LocalByUser(s.local, userId)}

\* findById(id)
FindById(t, s, id, sess, ok) ==
  IF sess /\ ok /\ HasRow(s.remote, id)
  THEN mapSingleFromSupabase(t, RowOf(s.remote, id))
  ELSE LocalFind(s.local, id)

\* the outcome of a write: the stores after it, the value returned, whether a
\* remote request was made (tried) and whether every one made succeeded (rok)
Outcome(s, value, tried, rok) == [s |-> s, value |-> value, tried |-> tried, rok |-> rok]

\* the mirror of a remotely created row: items.push(mapped)
MirrorCreatedNone(items, mapped) == items

MirrorCreated(items, mapped) == Append(items, mapped)

\* the local create every failed remote create falls through to
CreateLocal(s, item, ts) ==
  LET newItem == Spread(item, [id |-> Or(Get(item, "id"), GenId(s.ids + 1)),
                               createdAt |-> Or(Get(item, "createdAt"), ts),
                               updatedAt |-> Or(Get(item, "updatedAt"), ts)])
  IN [s EXCEPT !.local = Append(s.local, newItem),
               !.ids = IF Or(Get(item, "id"), Undef) = Undef THEN s.ids + 1 ELSE s.ids]

\* the row create(item) sends to the remote store: if (!payload.id) delete payload.id
CreatePayloadNoId(t, item, ts) ==
  LET full == Spread(item, [createdAt |-> Or(Get(item, "createdAt"), ts),
                            updatedAt |-> Or(Get(item, "updatedAt"), ts)])
  IN [mapToSupabase(t, full) EXCEPT !.id = Undef]

CreatePayload(t, item, ts) ==
  LET full == Spread(item, [createdAt |-> Or(Get(item, "createdAt"), ts),
                            updatedAt |-> Or(Get(item, "updatedAt"), ts)])
      mapped0 == mapToSupabase(t, full)
  IN [mapped0 EXCEPT !.id = Or(mapped0.id, Undef)]

\* create(item)
Create(t, s, item, ts, sess, ok) ==
  LET payload == CreatePayload(t, item, ts)
      row == InsertedRow(payload, s.ids + 1)
      inserted == sess /\ ok /\ ~HasRow(s.remote, row.id)
      mapped == mapSingleFromSupabase(t, row)
      fallback == CreateLocal(s, item, ts)
  IN IF inserted
     THEN Outcome([s EXCEPT !.remote = s.remote \cup {row},
                            !.local = MirrorCreated(s.local, mapped),
                            !.ids = IF payload.id = Undef THEN s.ids + 1 ELSE s.ids],
                  mapped, TRUE, TRUE)
     ELSE Outcome(fallback, fallback.local[Len(fallback.local)], sess, FALSE)

\* the mirror of a remotely updated row, pushed whether or not it is present
MirrorUpdatedPush(items, id, mapped) == Append(items, mapped)

\* the mirror of a remotely updated row: replace it, or push it when absent
MirrorUpdated(items, id, mapped) ==
  IF FindIndex(items, id) # 0
  THEN [items EXCEPT ![FindIndex(items, id)] = mapped]
  ELSE Append(items, mapped)

\* update(id, updates)
Update(t, s, id, updates, ts, sess, ok) ==
  LET payload == mapToSupabase(t, Spread(Spread(Blank(t), updates), [updatedAt |-> ts]))
      updated == sess /\ ok /\ HasRow(s.remote, id)
      row == UpdatedRow(RowOf(s.remote, id), payload)
      mapped == mapSingleFromSupabase(t, row)
      index == FindIndex(s.local, id)
      merged == Spread(Spread(s.local[index], updates), [updatedAt |-> ts])
  IN IF updated
     THEN Outcome([s EXCEPT !.remote = (s.remote \ {RowOf(s.remote, id)}) \cup {row},
                            !.local = MirrorUpdated(s.local, id, mapped)],
                  mapped, TRUE, TRUE)
     ELSE IF index = 0 THEN Outcome(s, Null, sess, FALSE)
     ELSE Outcome([s EXCEPT !.local = [s.local EXCEPT ![index] = merged]],
                  merged, sess, FALSE)

\* delete(id)
DeleteKeepLocal(t, s, id, sess, ok) ==
  IF sess /\ ok
  THEN Outcome([s EXCEPT !.remote = {r \in s.remote : r.id # id}], TRUE, TRUE, TRUE)
  ELSE IF Len(WithoutId(s.local, id)) = Len(s.local) THEN Outcome(s, FALSE, sess, FALSE)
  ELSE Outcome([s EXCEPT !.local = WithoutId(s.local, id)], TRUE, sess, FALSE)

Delete(t, s, id, sess, ok) ==
  IF sess /\ ok
  THEN Outcome([s EXCEPT !.remote = {r \in s.remote : r.id # id},
                         !.local = WithoutId(s.local, id)],
               TRUE, TRUE, TRUE)
  ELSE IF Len(WithoutId(s.local, id)) = Len(s.local) THEN Outcome(s, FALSE, sess, FALSE)
  ELSE Outcome([s EXCEPT !.local = WithoutId(s.local, id)], TRUE, sess, FALSE)

-----------------------------------------------------------------------------
(* Specialised repositories built on SupabaseBaseRepository *)

\* ThreadRepository.createThread(userId, projectId, title).  The insert is tried
\* whenever both ids are UUIDs and Supabase is configured (cfg); a row it returns
\* is not written to LocalStorage.  ok1: the insert succeeds; sess, ok2: the
\* session probe and insert of the create() it falls back to.
CreateThread(s, userId, projectId, title, ts, cfg, ok1, sess, ok2) ==
  LET item == Spread(Blank("threads"),
                     [userId |-> userId, projectId |-> projectId, title |-> title,
                      createdAt |-> ts, updatedAt |-> ts])
      payload == [mapToSupabase("threads", item) EXCEPT !.id = Undef]
      row == InsertedRow(payload, s.ids + 1)
      tried == IsValidUuid(userId) /\ IsValidUuid(projectId) /\ cfg
      back == Create("threads", s, item, ts, sess, ok2)
  IN IF tried /\ ok1
     THEN Outcome([s EXCEPT !.remote = s.remote \cup {row}, !.ids = s.ids + 1],
                  mapSingleFromSupabase("threads", row), TRUE, TRUE)
     ELSE Outcome(back.s, back.value, tried \/ back.tried, FALSE)

\* ThreadRepository.findByProjectId(projectId): the values the call can return,
\* and whether a remote request was made.  It asks only whether Supabase is
\* configured (cfg); ok: the query returns no error.
FindByProjectId(s, projectId, cfg, ok) ==
  LET rows == {r \in s.remote : r.project_id = projectId}
      desc == {q \in Orders(rows) : \A i, j \in DOMAIN q :
                 i < j => TimeIndex(q[i].updated_at) >= TimeIndex(q[j].updated_at)}
      here == SelectSeq(s.local, LAMBDA e : e.projectId = projectId)
      tried == IsValidUuid(projectId) /\ cfg
  IN IF tried /\ ok
     THEN {[value |-> mapFromSupabase("threads", q), tried |-> TRUE, rok |-> TRUE] : q \in desc}
     ELSE {[value |-> here, tried |-> tried, rok |-> FALSE]}

\* MessageRepository.createMessage(message)
CreateMessage(s, message, ts, cfg, ok1, sess, ok2) ==
  LET msg == Spread(message, [createdAt |-> IF message.createdAt = Undef THEN ts
                                            ELSE message.createdAt])
      payload == mapToSupabase("messages", msg)
      row == InsertedRow(payload, s.ids + 1)
      tried == msg.threadId \notin {Undef, ""} /\ IsValidUuid(msg.threadId) /\ cfg
      inserted == tried /\ ok1 /\ ~HasRow(s.remote, row.id)
      back == Create("messages", s, msg, ts, sess, ok2)
  IN IF inserted
     THEN Outcome([s EXCEPT !.remote = s.remote \cup {row},
                            !.ids = IF payload.id = Undef THEN s.ids + 1 ELSE s.ids],
                  mapSingleFromSupabase("messages", row), TRUE, TRUE)
     ELSE Outcome(back.s, back.value, tried \/ back.tried, FALSE)

\* homework.status === 'todo' ? 'done' : 'todo'
FlipKeep(status) == status

Flip(status) == IF status = "todo" THEN "done" ELSE "todo"

\* HomeworkRepository.toggleStatus(id): findById, then update.  The outcome
\* also carries what findById read (before), whether the remote store answered
\* that read (rread), and whether the update was applied remotely (rok).
ToggleStatus(s, id, ts, sess1, ok1, sess2, ok2) ==
  LET homework == FindById("homework", s, id, sess1, ok1)
      upd == Update("homework", s, id, [status |-> Flip(homework.status)], ts, sess2, ok2)
      rread == sess1 /\ ok1 /\ HasRow(s.remote, id)
  IN IF homework = Null
     THEN [s |-> s, value |-> Null, tried |-> sess1, rok |-> FALSE,
           before |-> Null, rread |-> FALSE]
     ELSE [s |-> upd.s, value |-> upd.value, tried |-> sess1 \/ sess2,
           rok |-> upd.rok, before |-> homework, rread |-> rread]

-----------------------------------------------------------------------------
(* ProjectService *)

\* existing.createdAt.localeCompare(project.createdAt) <= 0
KeepExistingLater(existing, project) ==
  localeCompare(existing.createdAt, project.createdAt) >= 0

KeepExisting(existing, project) ==
  localeCompare(existing.createdAt, project.createdAt) <= 0

\* the position in the sequence u of the project named name, 0 when none
NameIndex(u, name) ==
  IF \E i \in 1..Len(u) : u[i].name = name
  THEN CHOOSE i \in 1..Len(u) : u[i].name = name
  ELSE 0

RECURSIVE NormalizeFrom(_, _, _, _)
\* projects.forEach from position i on; u: map.values(), d: duplicates
NormalizeFrom(projects, i, u, d) ==
  IF i > Len(projects) THEN [unique |-> u, duplicates |-> d]
  ELSE LET project == projects[i]
           k == NameIndex(u, project.name)
       IN IF k = 0 THEN NormalizeFrom(projects, i + 1, Append(u, project), d)
          ELSE IF KeepExisting(u[k], project)
          THEN NormalizeFrom(projects, i + 1, u, Append(d, project))
          ELSE NormalizeFrom(projects, i + 1, [u EXCEPT ![k] = project], Append(d, u[k]))

\* normalizeProjects(projects)
normalizeProjects(projects) == NormalizeFrom(projects, 1, <<>>, <<>>)

RECURSIVE DeleteAll(_, _, _, _, _)
\* Promise.all(duplicates.map(project => this.projectRepository.delete(project.id)))
\* every delete reads and writes LocalStorage in one synchronous step, so the
\* deletes act one after another; oks[i]: the i-th remote delete succeeds
DeleteAll(s, d, i, sess, oks) ==
  IF i > Len(d) THEN s
  ELSE DeleteAll(Delete("projects", s, d[i].id, sess, oks[i]).s, d, i + 1, sess, oks)

\* getProjectsByUserId(userId), for a listing findByUserId returned
GetProjects(s, listed, sess, oks) ==
  LET n == normalizeProjects(listed)
  IN [s |-> DeleteAll(s, n.duplicates, 1, sess, oks), value |-> n.unique,
      duplicates |-> n.duplicates]

-----------------------------------------------------------------------------
(* TestSetRepository: s.remote / s.local hold the test sets, s.rscores /   *)
(* s.lscores the test scores.  It asks only whether Supabase is configured *)
(* (cfg), never for a session.                                             *)

\* s.maxScore ?? 100
DefaultMaxScore == "100"

SetFromRow(set) ==
  [id |-> set.id, userId |-> set.user_id, date |-> set.date, name |-> set.name,
   grade |-> set.grade, memo |-> set.memo, createdAt |-> set.created_at,
   updatedAt |-> set.updated_at]

ScoreFromRow(r) ==
  [id |-> r.id, testSetId |-> r.test_set_id, subject |-> r.subject,
   score |-> r.score, average |-> r.average, maxScore |-> r.max_score,
   rank |-> r.rank, deviation |-> r.deviation,
   problemImages |-> Or(r.problem_images, "[]"),
   answerImages |-> Or(r.answer_images, "[]"), createdAt |-> r.created_at]

\* scores.map(s => ({ test_set_id, subject, ... })), with the keys the remote
\* store generates for them: the (n+1)-th, (n+2)-th, ... identifier
ScoreRows(setId, scores, n, ts) ==
  [i \in DOMAIN scores |->
     [id |-> GenId(n + i), test_set_id |-> setId, subject |-> scores[i].subject,
      score |-> scores[i].score, average |-> scores[i].average,
      max_score |-> IF scores[i].maxScore = Undef THEN DefaultMaxScore
                    ELSE scores[i].maxScore,
      rank |-> Undef, deviation |-> Undef, problem_images |-> "[]",
      answer_images |-> "[]", created_at |-> ts]]

\* the TestScore objects the local helpers build, each with a generateId()
LocalScores(setId, scores, n, ts) ==
  [i \in DOMAIN scores |->
     [id |-> GenId(n + i), testSetId |-> setId, subject |-> scores[i].subject,
      score |-> scores[i].score, average |-> scores[i].average,
      maxScore |-> IF scores[i].maxScore = Undef THEN DefaultMaxScore
                   ELSE scores[i].maxScore,
      rank |-> Undef, deviation |-> Undef, problemImages |-> "[]",
      answerImages |-> "[]", createdAt |-> ts]]

Range(q) == {q[i] : i \in DOMAIN q}

WithScores(set, scores) == [set |-> set, scores |-> scores]

\* createTestSetLocal(userId, data, scores, now)
CreateTestSetLocal(s, userId, data, scores, ts) ==
  LET setId == GenId(s.ids + 1)
      newSet == [id |-> setId, userId |-> userId, date |-> data.date,
                 name |-> data.name, grade |-> data.grade, memo |-> data.memo,
                 createdAt |-> ts, updatedAt |-> Undef]
      newScores == LocalScores(setId, scores, s.ids + 1, ts)
  IN [s |-> [s EXCEPT !.local = Append(s.local, newSet),
                      !.lscores = s.lscores \o newScores,
                      !.ids = s.ids + 1 + Len(scores)],
      value |-> WithScores(newSet, newScores)]

\* createTestSet(userId, data, scores); fail: the remote step that fails
\* (1: the set insert, 2: the scores insert), 0 when none does
CreateTestSet(s, userId, data, scores, ts, cfg, fail) ==
  LET set == [id |-> GenId(s.ids + 1), user_id |-> userId, date |-> data.date,
              name |-> data.name, grade |-> data.grade, memo |-> data.memo,
              created_at |-> ts, updated_at |-> Undef]
      s1 == [s EXCEPT !.remote = s.remote \cup {set}, !.ids = s.ids + 1]
      rows == ScoreRows(set.id, scores, s1.ids, ts)
      s2 == [s1 EXCEPT !.rscores = s1.rscores \cup Range(rows),
                       !.ids = s1.ids + Len(scores)]
      back == CreateTestSetLocal(IF cfg /\ fail = 2 THEN s1 ELSE s, userId, data, scores, ts)
  IN IF ~cfg THEN Outcome(back.s, back.value, FALSE, FALSE)
     ELSE IF fail # 0 THEN Outcome(back.s, back.value, TRUE, FALSE)
     ELSE Outcome(s2, WithScores(SetFromRow(set),
                                 [i \in DOMAIN rows |-> ScoreFromRow(rows[i])]),
                  TRUE, TRUE)

\* the local scores that remain when a set's scores are replaced
OtherScores(items, id) == SelectSeq(items, LAMBDA x : x.testSetId # id)

\* updateTestSetLocal(id, data, scores, now)
UpdateTestSetLocal(s, id, data, scores, ts) ==
  LET index == FindIndex(s.local, id)
      upd == [s.local[index] EXCEPT !.date = data.date, !.name = data.name,
                                    !.grade = data.grade, !.memo = data.memo,
                                    !.updatedAt = ts]
      newScores == LocalScores(id, scores, s.ids, ts)
  IN IF index = 0 THEN [s |-> s, value |-> Null]
     ELSE [s |-> [s EXCEPT !.local = [s.local EXCEPT ![index] = upd],
                           !.lscores = OtherScores(s.lscores, id) \o newScores,
                           !.ids = s.ids + Len(scores)],
           value |-> WithScores(upd, newScores)]

\* updateTestSet(id, data, scores); fail: the remote step that fails (1: the
\* set update, 2: the delete of the old scores, 3: the insert of the new
\* ones), 0 when none does.  The steps before it have taken effect.
UpdateTestSet(s, id, data, scores, ts, cfg, fail) ==
  LET step1 == cfg /\ fail # 1 /\ HasRow(s.remote, id)
      old == RowOf(s.remote, id)
      set == UpdatedRow(old, [date |-> data.date, name |-> data.name,
                              grade |-> data.grade, memo |-> data.memo,
                              updated_at |-> ts])
      s1 == IF step1 THEN [s EXCEPT !.remote = (s.remote \ {old}) \cup {set}] ELSE s
      step2 == step1 /\ fail # 2
      s2 == IF step2 THEN [s1 EXCEPT !.rscores = {r \in s1.rscores : r.test_set_id # id}]
            ELSE s1
      step3 == step2 /\ fail # 3
      rows == ScoreRows(id, scores, s2.ids, ts)
      s3 == [s2 EXCEPT !.rscores = s2.rscores \cup Range(rows),
                       !.ids = s2.ids + Len(scores)]
      back == UpdateTestSetLocal(s2, id, data, scores, ts)
  IN IF step3
     THEN Outcome(s3, WithScores(SetFromRow(set),
                                 [i \in DOMAIN rows |-> ScoreFromRow(rows[i])]),
                  TRUE, TRUE)
     ELSE Outcome(back.s, back.value, cfg, FALSE)

\* findById(id) of a test set; ok1: the set query succeeds, ok2: the scores query
TestSetFindById(s, id, cfg, ok1, ok2) ==
  IF cfg
  THEN IF ok1 /\ HasRow(s.remote, id)
       THEN {WithScores(SetFromRow(RowOf(s.remote, id)),
                        IF ok2 THEN [i \in DOMAIN q |-> ScoreFromRow(q[i])] ELSE <<>>) :
               q \in Orders({r \in s.rscores : r.test_set_id = id})}
       ELSE {Null}
  ELSE IF FindIndex(s.local, id) = 0 THEN {Null}
       ELSE {WithScores(LocalFind(s.local, id),
                        SelectSeq(s.lscores, LAMBDA x : x.testSetId = id))}

\* deleteTestSet(id): the remote delete cascades to the scores
DeleteTestSetKeepScores(s, id, cfg, ok) ==
  LET localGone == [s EXCEPT !.local = WithoutId(s.local, id)]
  IN IF cfg /\ ~ok THEN [s |-> s, raised |-> TRUE]
     ELSE IF cfg
     THEN [s |-> [localGone EXCEPT !.remote = {r \in s.remote : r.id # id},
                                   !.rscores = {r \in s.rscores : r.test_set_id # id}],
           raised |-> FALSE]
     ELSE [s |-> localGone, raised |-> FALSE]

DeleteTestSet(s, id, cfg, ok) ==
  LET localGone == [s EXCEPT !.local = WithoutId(s.local, id),
                             !.lscores = OtherScores(s.lscores, id)]
  IN IF cfg /\ ~ok THEN [s |-> s, raised |-> TRUE]
     ELSE IF cfg
     THEN [s |-> [localGone EXCEPT !.remote = {r \in s.remote : r.id # id},
                                   !.rscores = {r \in s.rscores : r.test_set_id # id}],
           raised |-> FALSE]
     ELSE [s |-> localGone, raised |-> FALSE]

-----------------------------------------------------------------------------
(* LessonRecordRepository.  sess: hasValidSession() *)

LessonFromSupabase(data) ==
  [id |-> data.id, userId |-> data.user_id, date |-> data.date,
   duration |-> data.duration, content |-> data.content, memo |-> data.memo,
   createdAt |-> data.created_at, updatedAt |-> data.updated_at]

\* createLocal(userId, data, now)
LessonCreateLocal(s, userId, data, ts) ==
  LET newRecord == [id |-> GenId(s.ids + 1), userId |-> userId, date |-> data.date,
                    duration |-> data.duration, content |-> data.content,
                    memo |-> data.memo, createdAt |-> ts, updatedAt |-> Undef]
  IN [s |-> [s EXCEPT !.local = Append(s.local, newRecord), !.ids = s.ids + 1],
      value |-> newRecord, raised |-> FALSE, tried |-> FALSE, rok |-> FALSE]

\* a create that swallows the failed insert and saves locally instead
LessonCreateQuiet(s, userId, data, ts, sess, ok) ==
  [LessonCreateLocal(s, userId, data, ts) EXCEPT !.tried = sess]

\* create(userId, data): with a session, a failed insert is thrown to the caller
LessonCreate(s, userId, data, ts, sess, ok) ==
  LET row == [id |-> GenId(s.ids + 1), user_id |-> userId, date |-> data.date,
              duration |-> data.duration, content |-> data.content,
              memo |-> data.memo, created_at |-> ts, updated_at |-> Undef]
  IN IF sess /\ ok
     THEN [s |-> [s EXCEPT !.remote = s.remote \cup {row}, !.ids = s.ids + 1],
           value |-> LessonFromSupabase(row), raised |-> FALSE,
           tried |-> TRUE, rok |-> TRUE]
     ELSE IF sess
     THEN [s |-> s, value |-> Null, raised |-> TRUE, tried |-> TRUE, rok |-> FALSE]
     ELSE LessonCreateLocal(s, userId, data, ts)

\* updateLocal(id, data, now)
LessonUpdateLocal(s, id, data, ts) ==
  LET index == FindIndex(s.local, id)
      upd == [s.local[index] EXCEPT !.date = data.date, !.duration = data.duration,
                                    !.content = data.content, !.memo = data.memo,
                                    !.updatedAt = ts]
  IN IF index = 0
     THEN [s |-> s, value |-> Null, raised |-> FALSE, tried |-> FALSE, rok |-> FALSE]
     ELSE [s |-> [s EXCEPT !.local = [s.local EXCEPT ![index] = upd]],
           value |-> upd, raised |-> FALSE, tried |-> FALSE, rok |-> FALSE]

\* update(id, data)
LessonUpdate(s, id, data, ts, sess, ok) ==
  LET old == RowOf(s.remote, id)
      row == UpdatedRow(old, [date |-> data.date, duration |-> data.duration,
                              content |-> data.content, memo |-> data.memo,
                              updated_at |-> ts])
  IN IF sess /\ ok /\ HasRow(s.remote, id)
     THEN [s |-> [s EXCEPT !.remote = (s.remote \ {old}) \cup {row}],
           value |-> LessonFromSupabase(row), raised |-> FALSE,
           tried |-> TRUE, rok |-> TRUE]
     ELSE IF sess
     THEN [s |-> s, value |-> Null, raised |-> TRUE, tried |-> TRUE, rok |-> FALSE]
     ELSE LessonUpdateLocal(s, id, data, ts)

\* findById(id): with a session the local store is never consulted
LessonFindById(s, id, sess, ok) ==
  IF sess
  THEN IF ok /\ HasRow(s.remote, id) THEN LessonFromSupabase(RowOf(s.remote, id))
       ELSE Null
  ELSE LocalFind(s.local, id)

\* delete(id): with a session only the remote row is deleted
LessonDelete(s, id, sess, ok) ==
  IF sess /\ ok
  THEN [s |-> [s EXCEPT !.remote = {r \in s.remote : r.id # id}], raised |-> FALSE]
  ELSE IF sess THEN [s |-> s, raised |-> TRUE]
  ELSE [s |-> [s EXCEPT !.local = WithoutId(s.local, id)], raised |-> FALSE]

-----------------------------------------------------------------------------
(* The parts of the state a specification does not use stay as constructed *)

\* a call record of the repositories: the operation, its id or owner argument,
\* the value it returned, whether it raised, whether it made a remote request
\* (tried) and whether every request it made succeeded (rok), what it read
\* before writing (before), whether the remote store answered that read
\* (rread), the listing it worked on (listed), its scores argument (scores),
\* and the time of the call (at)
NoCall ==
  [op |-> "none", arg |-> Undef, value |-> Null, raised |-> FALSE,
   tried |-> FALSE, rok |-> FALSE, rread |-> FALSE, before |-> Null,
   listed |-> <<>>, scores |-> <<>>, at |-> Undef, had |-> FALSE]

MapIdle == mp = NoMap

SanIdle == sn = NoSan

RepoIdle ==
  /\ tbl = "none"
  /\ remote = {} /\ local = <<>> /\ rscores = {} /\ lscores = <<>>
  /\ now = 1 /\ ids = 0 /\ ops = 0
  /\ res = NoCall /\ prev = NoCall

UrlIdle == cache = EmptyCache /\ clock = 0 /\ signed = 0 /\ ur = NoUrlCall

\* nothing has run yet
Off == [pc |-> "off"]

ProcIdle == tg = Off /\ rm = Off /\ dp = Off /\ ip = Off /\ cp = Off

AuxIdle == ls = Off /\ up = Off /\ au = Off /\ ac = Off /\ ProcIdle

-----------------------------------------------------------------------------
(* Field mappers run on every partial entity *)

InitMap ==
  /\ mp \in UNION {{[pc |-> "in", type |-> t, input |-> e, row |-> Undef,
                       out |-> Undef] : e \in Partials(t)} : t \in GenericTables}
  /\ SanIdle /\ RepoIdle /\ UrlIdle /\ configured = FALSE /\ AuxIdle

NextMap == MapToRow \/ MapFromRow

SpecMap == InitMap /\ [][NextMap]_vars

\* the fields of an entity of type t with value v that do not read back as
\* written: a message's userId (the row has no such column), an empty
\* updatedAt (read back as createdAt), an empty tags of a test result
Lossy(t, f, v) ==
  \/ t = "messages" /\ f = "userId" /\ v # ""
  \/ f = "updatedAt" /\ v = ""
  \/ t = "test_results" /\ f = "tags" /\ v = ""

\* C9 as stated: every field present in the partial entity e has the same value
\* in mapSingleFromSupabase(mapToSupabase(e))
C9_RoundTripAllFields ==
  mp.pc = "out" =>
    \A f \in Fields(mp.type) : mp.input[f] # Undef => mp.out[f] = mp.input[f]

\* C9, corrected: every field present in e reads back with the value it had,
\* except a message's non-empty userId, which reads back '', an empty
\* updatedAt, which reads back as createdAt, and an empty tags of a test
\* result, which reads back undefined
C9_RoundTrip ==
  mp.pc = "out" =>
    \A f \in Fields(mp.type) :
      mp.input[f] # Undef =>
        IF ~Lossy(mp.type, f, mp.input[f]) THEN mp.out[f] = mp.input[f]
        ELSE IF f = "userId" THEN mp.out[f] = ""
        ELSE IF f = "updatedAt" THEN mp.out[f] = mp.input.createdAt
        ELSE mp.out[f] = Undef

\* a message with a userId has been mapped to a row and back
C9_Witness ==
  mp.pc = "out" /\ mp.type = "messages" /\ mp.input.userId = "u1" /\ mp.out.userId = ""

-----------------------------------------------------------------------------
(* sanitizeFileName run on every file name of FileNames *)

InitSan ==
  /\ sn \in {[pc |-> "in", name |-> n, out |-> <<>>] : n \in FileNames}
  /\ MapIdle /\ RepoIdle /\ UrlIdle /\ configured = FALSE /\ AuxIdle

NextSan == Sanitize

SpecSan == InitSan /\ [][NextSan]_vars

\* C10: the name sanitizeFileName returns has no non-ASCII character, no
\* whitespace and no path-unsafe character, a base part of 1 to 50 characters,
\* and the lower-cased extension of the input (jpg when it has none)
C10_SafeName ==
  sn.pc = "out" =>
    /\ \A i \in 1..Len(sn.out) : sn.out[i] \notin NonAscii \cup Whitespace \cup Unsafe
    /\ Len(sn.out) - Len(Extension(sn.name)) - 1 \in 1..MaxBase
    /\ SubSeq(sn.out, Len(sn.out) - Len(Extension(sn.name)) + 1, Len(sn.out))
         = Extension(sn.name)

-----------------------------------------------------------------------------
(* The signed-URL cache under calls of createSignedUrl and removeAttachment *)

InitUrl ==
  /\ configured \in BOOLEAN
  /\ UrlIdle /\ MapIdle /\ SanIdle /\ RepoIdle /\ AuxIdle

NextUrl ==
  \/ UrlTick
  \/ \E path \in Paths, expiresIn \in ExpiryChoices, ok \in BOOLEAN :
       CreateSignedUrl(path, expiresIn, ok)
  \/ \E path \in Paths, ok \in BOOLEAN : RemoveAttachment(path, ok)

SpecUrl == InitUrl /\ [][NextUrl]_vars

\* C5: createSignedUrl returns the cached URL, with no remote request, exactly
\* when the entry of the path has more than RefreshMargin minutes left; with no
\* entry, or one with RefreshMargin or less left, it makes one remote request
\* and what it returns is the fresh URL of that request
C5_CacheBoundary ==
  ur.op = "createSignedUrl" /\ configured =>
    LET valid == ur.entry # NoEntry /\ ur.entry.expiresAt - ur.at > RefreshMargin
    IN /\ valid => ur.calls = 0 /\ ~ur.raised /\ ur.result = ur.entry.url
       /\ ~valid => /\ ur.calls = 1
                    /\ ~ur.raised => /\ ur.result = ur.fresh
                                     /\ ur.fresh # NoUrl
                                     /\ ur.fresh # ur.entry.url
                                     /\ cache[ur.path].url = ur.fresh

\* an entry with exactly RefreshMargin minutes left was refreshed
C5_Witness ==
  /\ ur.op = "createSignedUrl" /\ ur.entry # NoEntry
  /\ ur.entry.expiresAt - ur.at = RefreshMargin
  /\ ur.calls = 1 /\ ur.result = ur.fresh /\ ur.fresh # NoUrl

-----------------------------------------------------------------------------
(* The repositories under sequences of calls.  One repository instance is  *)
(* under test (tbl); every call is one action, with the outcome of the     *)
(* session probe and of the remote requests chosen by the environment.    *)

Tables == GenericTables \cup {"test_sets", "lesson_records"}

\* the outcomes of the session probe, and of a remote request made with it
Sessions == IF configured THEN BOOLEAN ELSE {FALSE}
Outcomes(sess) == IF sess THEN BOOLEAN ELSE {TRUE}

\* the identifiers the calls are made with: those generated first
MaxTargets == 2
TargetIds == {GenId(k) : k \in 1..MaxTargets}

\* what the callers pass to create(): no id, no timestamps
NewItems(t) ==
  CASE t = "projects" ->
         {Spread(Blank(t), [userId |-> u, name |-> n]) : u \in Users, n \in {"Math", "Eng"}}
    [] t = "threads" ->
         {Spread(Blank(t), [userId |-> u, projectId |-> "p1", title |-> "T"]) : u \in Users}
    [] t = "messages" ->
         {Spread(Blank(t), [userId |-> u, threadId |-> th, role |-> "user",
                            content |-> "hi"]) : u \in Users, th \in {"th1", "legacy"}}
    [] t = "homework" ->
         {Spread(Blank(t), [userId |-> u, projectId |-> "p1", title |-> "T",
                            detail |-> "d", assignedAt |-> "t01", dueAt |-> "t03",
                            status |-> "todo"]) : u \in Users}
    [] t = "test_results" ->
         {Spread(Blank(t), [userId |-> u, projectId |-> "p1", takenAt |-> "t01",
                            score |-> "50"]) : u \in Users}

\* what the callers pass to update()
Updates(t) ==
  CASE t = "projects" -> {[name |-> "Eng"]}
    [] t = "threads" -> {[title |-> "T2"]}
    [] t = "messages" -> {[content |-> "yo"]}
    [] t = "homework" -> {[title |-> "T2"]}
    [] t = "test_results" -> {[score |-> "0"]}

\* the data createTestSet() and updateTestSet() are called with
NewSetData == {[date |-> "t01", name |-> "Mid", grade |-> Undef, memo |-> Undef]}
SetUpdates == {[date |-> "t02", name |-> "Final", grade |-> "g1", memo |-> Undef]}

ScoreInput(subject) ==
  [subject |-> subject, score |-> "50", average |-> Undef, maxScore |-> Undef]

ScoreLists == {<<>>, <<ScoreInput("math")>>, <<ScoreInput("eng")>>}

\* the data create() and update() of a lesson record are called with
NewLessonData == {[date |-> "t01", duration |-> "60", content |-> "c", memo |-> Undef]}
LessonUpdates == {[date |-> "t02", duration |-> "90", content |-> "c", memo |-> "m"]}

\* a call returns: its record replaces res, the stores are as it left them
Return(r, s) ==
  /\ ops < MaxOps
  /\ s.ids <= MaxIds
  /\ res' = [r EXCEPT !.at = toISOString(now)] /\ prev' = res /\ ops' = ops + 1
  /\ remote' = s.remote /\ local' = s.local
  /\ rscores' = s.rscores /\ lscores' = s.lscores /\ ids' = s.ids
  /\ UNCHANGED <<configured, tbl, now, mapVars, sanVars, urlVars, auxVars>>

\* Date.now() advances
RepoTick ==
  /\ tbl \in Tables
  /\ now < MaxTime
  /\ now' = now + 1
  /\ UNCHANGED <<configured, tbl, remote, local, rscores, lscores, ids, ops, res, prev,
                 mapVars, sanVars, urlVars, auxVars>>

DoFindAll(userId, sess, ok) ==
  /\ tbl \in GenericTables
  /\ \E v \in FindAll(tbl, Store, userId, sess, ok) :
       Return([NoCall EXCEPT !.op = "findAll", !.arg = userId, !.value = v,
                             !.tried = sess, !.rok = sess /\ ok], Store)

DoFindById(id, sess, ok) ==
  /\ tbl \in GenericTables
  /\ Return([NoCall EXCEPT !.op = "findById", !.arg = id,
                           !.value = FindById(tbl, Store, id, sess, ok),
                           !.tried = sess, !.rok = sess /\ ok /\ HasRow(remote, id)],
            Store)

DoCreate(item, sess, ok) ==
  /\ tbl \in GenericTables
  /\ LET o == Create(tbl, Store, item, toISOString(now), sess, ok)
     IN Return([NoCall EXCEPT !.op = "create", !.arg = item.userId, !.value = o.value,
                              !.tried = o.tried, !.rok = o.rok,
                              !.before = [item |-> item,
                                          sent |-> IF sess
                                                   THEN CreatePayload(tbl, item, toISOString(now))
                                                   ELSE Null]], o.s)

DoUpdate(id, updates, sess, ok) ==
  /\ tbl \in GenericTables
  /\ LET o == Update(tbl, Store, id, updates, toISOString(now), sess, ok)
     IN Return([NoCall EXCEPT !.op = "update", !.arg = id, !.value = o.value,
                              !.tried = o.tried, !.rok = o.rok,
                              !.before = LocalFind(local, id)], o.s)

DoDelete(id, sess, ok) ==
  /\ tbl \in GenericTables
  /\ LET o == Delete(tbl, Store, id, sess, ok)
     IN Return([NoCall EXCEPT !.op = "delete", !.arg = id,
                              !.value = [deleted |-> o.value],
                              !.tried = o.tried, !.rok = o.rok,
                              !.before = LocalFind(local, id),
                              !.had = HasRow(remote, id)], o.s)

DoCreateThread(userId, projectId, ok1, sess, ok2) ==
  /\ tbl = "threads"
  /\ LET o == CreateThread(Store, userId, projectId, "T", toISOString(now),
                           configured, ok1, sess, ok2)
     IN Return([NoCall EXCEPT !.op = "createThread", !.arg = userId, !.value = o.value,
                              !.tried = o.tried, !.rok = o.rok], o.s)

DoCreateMessage(message, ok1, sess, ok2) ==
  /\ tbl = "messages"
  /\ LET o == CreateMessage(Store, message, toISOString(now), configured, ok1, sess, ok2)
     IN Return([NoCall EXCEPT !.op = "createMessage", !.arg = message.userId,
                              !.value = o.value, !.tried = o.tried, !.rok = o.rok], o.s)

DoToggleStatus(id, sess1, ok1, sess2, ok2) ==
  /\ tbl = "homework"
  /\ LET o == ToggleStatus(Store, id, toISOString(now), sess1, ok1, sess2, ok2)
     IN Return([NoCall EXCEPT !.op = "toggleStatus", !.arg = id, !.value = o.value,
                              !.tried = o.tried, !.rok = o.rok, !.rread = o.rread,
                              !.before = o.before], o.s)

\* ProjectService.getProjectsByUserId(userId); sess1, ok1: the listing;
\* sess2, oks: the deletes of the duplicates
DoGetProjects(userId, sess1, ok1, sess2, oks) ==
  /\ tbl = "projects"
  /\ \E listed \in FindAll(tbl, Store, userId, sess1, ok1) :
       LET o == GetProjects(Store, listed, sess2, oks)
       IN Return([NoCall EXCEPT !.op = "getProjects", !.arg = userId,
                                !.value = o.value, !.listed = listed,
                                !.tried = sess2,
                                !.rok = sess2 /\ \A i \in DOMAIN o.duplicates : oks[i],
                                !.rread = sess1 /\ ok1], o.s)

\* the identifiers of the scores of set id, in both stores
ScoreIds(s, id) ==
  {r.id : r \in {x \in s.rscores : x.test_set_id = id}}
    \cup {s.lscores[i].id : i \in {j \in DOMAIN s.lscores : s.lscores[j].testSetId = id}}

\* the remote step of a test-set write that fails, 0 for none
Failures(n) == IF configured THEN 0..n ELSE {0}

DoCreateTestSet(userId, data, scores, fail) ==
  /\ tbl = "test_sets"
  /\ LET o == CreateTestSet(Store, userId, data, scores, toISOString(now), configured, fail)
     IN Return([NoCall EXCEPT !.op = "createTestSet", !.arg = userId, !.value = o.value,
                              !.tried = o.tried, !.rok = o.rok, !.scores = scores,
                              !.before = [rsets |-> {r.id : r \in remote},
                                          lsets |-> {local[i].id : i \in DOMAIN local}]],
               o.s)

DoUpdateTestSet(id, data, scores, fail) ==
  /\ tbl = "test_sets"
  /\ LET o == UpdateTestSet(Store, id, data, scores, toISOString(now), configured, fail)
     IN Return([NoCall EXCEPT !.op = "updateTestSet", !.arg = id, !.value = o.value,
                              !.tried = o.tried, !.rok = o.rok, !.scores = scores,
                              !.before = [existed |-> HasRow(remote, id)
                                                       \/ FindIndex(local, id) # 0,
                                          scoreIds |-> ScoreIds(Store, id),
                                          rrow |-> IF HasRow(remote, id)
                                                   THEN RowOf(remote, id) ELSE Null,
                                          lrow |-> LocalFind(local, id)]], o.s)

DoTestSetFindById(id, ok1, ok2) ==
  /\ tbl = "test_sets"
  /\ \E v \in TestSetFindById(Store, id, configured, ok1, ok2) :
       Return([NoCall EXCEPT !.op = "findTestSet", !.arg = id, !.value = v,
                             !.tried = configured,
                             !.rok = configured /\ ok1 /\ ok2 /\ HasRow(remote, id),
                             !.before = [failed |-> configured /\ ~ok1]],
              Store)

DoDeleteTestSet(id, ok) ==
  /\ tbl = "test_sets"
  /\ LET o == DeleteTestSet(Store, id, configured, ok)
     IN Return([NoCall EXCEPT !.op = "deleteTestSet", !.arg = id, !.raised = o.raised,
                              !.tried = configured, !.rok = configured /\ ok,
                              !.before = [local |-> local, lscores |-> lscores]], o.s)

DoLessonCreate(userId, data, sess, ok) ==
  /\ tbl = "lesson_records"
  /\ LET o == LessonCreate(Store, userId, data, toISOString(now), sess, ok)
     IN Return([NoCall EXCEPT !.op = "lessonCreate", !.arg = userId, !.value = o.value,
                              !.raised = o.raised, !.tried = o.tried, !.rok = o.rok], o.s)

DoLessonUpdate(id, data, sess, ok) ==
  /\ tbl = "lesson_records"
  /\ LET o == LessonUpdate(Store, id, data, toISOString(now), sess, ok)
     IN Return([NoCall EXCEPT !.op = "lessonUpdate", !.arg = id, !.value = o.value,
                              !.raised = o.raised, !.tried = o.tried, !.rok = o.rok], o.s)

DoLessonFindById(id, sess, ok) ==
  /\ tbl = "lesson_records"
  /\ Return([NoCall EXCEPT !.op = "lessonFindById", !.arg = id,
                           !.value = LessonFindById(Store, id, sess, ok),
                           !.tried = sess, !.rok = sess /\ ok /\ HasRow(remote, id),
                           !.before = [failed |-> sess /\ ~ok]],
            Store)

DoLessonDelete(id, sess, ok) ==
  /\ tbl = "lesson_records"
  /\ LET o == LessonDelete(Store, id, sess, ok)
     IN Return([NoCall EXCEPT !.op = "lessonDelete", !.arg = id, !.raised = o.raised,
                              !.tried = sess, !.rok = sess /\ ok], o.s)

Init ==
  /\ tbl \in Tables
  /\ configured \in BOOLEAN
  /\ remote = {} /\ local = <<>> /\ rscores = {} /\ lscores = <<>>
  /\ now = 1 /\ ids = 0 /\ ops = 0
  /\ res = NoCall /\ prev = NoCall
  /\ MapIdle /\ SanIdle /\ UrlIdle /\ AuxIdle

Next ==
  \/ RepoTick
  \/ \E userId \in Users, sess \in Sessions : \E ok \in Outcomes(sess) :
       DoFindAll(userId, sess, ok)
  \/ \E id \in TargetIds, sess \in Sessions : \E ok \in Outcomes(sess) :
       DoFindById(id, sess, ok)
  \/ \E t \in GenericTables, sess \in Sessions : \E item \in NewItems(t), ok \in Outcomes(sess) :
       t = tbl /\ DoCreate(item, sess, ok)
  \/ \E t \in GenericTables, id \in TargetIds, sess \in Sessions :
       \E updates \in Updates(t), ok \in Outcomes(sess) :
         t = tbl /\ DoUpdate(id, updates, sess, ok)
  \/ \E id \in TargetIds, sess \in Sessions : \E ok \in Outcomes(sess) :
       DoDelete(id, sess, ok)
  \/ \E userId \in Users, projectId \in {"p1"} \cup LegacyIds, ok1 \in BOOLEAN,
        sess \in Sessions : \E ok2 \in Outcomes(sess) :
       DoCreateThread(userId, projectId, ok1, sess, ok2)
  \/ \E message \in NewItems("messages"), ok1 \in BOOLEAN, sess \in Sessions :
       \E ok2 \in Outcomes(sess) : DoCreateMessage(message, ok1, sess, ok2)
  \/ \E id \in TargetIds, sess1 \in Sessions, sess2 \in Sessions :
       \E ok1 \in Outcomes(sess1), ok2 \in Outcomes(sess2) :
         DoToggleStatus(id, sess1, ok1, sess2, ok2)
  \/ \E userId \in Users, sess1 \in Sessions, sess2 \in Sessions :
       \E ok1 \in Outcomes(sess1), oks \in [1..MaxIds -> Outcomes(sess2)] :
         DoGetProjects(userId, sess1, ok1, sess2, oks)
  \/ \E userId \in Users, data \in NewSetData, scores \in ScoreLists, fail \in Failures(2) :
       DoCreateTestSet(userId, data, scores, fail)
  \/ \E id \in TargetIds, data \in SetUpdates, scores \in ScoreLists, fail \in Failures(3) :
       DoUpdateTestSet(id, data, scores, fail)
  \/ \E id \in TargetIds, ok1 \in BOOLEAN, ok2 \in BOOLEAN : DoTestSetFindById(id, ok1, ok2)
  \/ \E id \in TargetIds, ok \in BOOLEAN : DoDeleteTestSet(id, ok)
  \/ \E userId \in Users, data \in NewLessonData, sess \in Sessions : \E ok \in Outcomes(sess) :
       DoLessonCreate(userId, data, sess, ok)
  \/ \E id \in TargetIds, data \in LessonUpdates, sess \in Sessions : \E ok \in Outcomes(sess) :
       DoLessonUpdate(id, data, sess, ok)
  \/ \E id \in TargetIds, sess \in Sessions : \E ok \in Outcomes(sess) :
       DoLessonFindById(id, sess, ok)
  \/ \E id \in TargetIds, sess \in Sessions : \E ok \in Outcomes(sess) :
       DoLessonDelete(id, sess, ok)

Spec == Init /\ [][Next]_vars

-----------------------------------------------------------------------------
(* Claims about the repositories *)

\* the remote request of a call failed
RemoteFailed(r) == r.tried /\ ~r.rok

\* the entity a write returned: the set itself for a test set with its scores
EntityOf(v) == IF "set" \in DOMAIN v THEN v.set ELSE v

\* the call returned a well-formed entity that is in the local store
Persisted(r) ==
  /\ r.value # Null
  /\ EntityOf(r.value).id # Undef
  /\ EntityOf(r.value).createdAt # Undef
  /\ \E i \in DOMAIN local : local[i] = EntityOf(r.value)
  /\ "scores" \in DOMAIN r.value =>
       \A j \in DOMAIN r.value.scores :
         \E k \in DOMAIN lscores : lscores[k] = r.value.scores[j]

CreateOps == {"create", "createThread", "createMessage", "createTestSet"}
UpdateOps == {"update", "updateTestSet"}
LessonOps == {"lessonCreate", "lessonUpdate"}

C2_ReadRepair ==
  /\ prev.op = "findAll" /\ res.op = "findAll" /\ prev.arg = res.arg
  /\ prev.rok /\ res.rok /\ prev.value = res.value
  => \A i \in DOMAIN res.value :
       Cardinality({j \in DOMAIN local : local[j].id = res.value[i].id}) = 1

\* C3: every entity findAll(ownerId) returns, from the remote or from the local
\* store, has userId equal to ownerId
C3_OwnerIsolation ==
  tbl \in GenericTables /\ res.op = "findAll" =>
    \A i \in DOMAIN res.value : res.value[i].userId = res.arg

\* the remote store answered a findAll with rows while holding another owner's
C3_Witness ==
  /\ res.op = "findAll" /\ res.rok /\ res.value # <<>>
  /\ \E r \in remote : r.user_id \in Users \ {res.arg}

\* scores[i].subject, in order
Subjects(scores) == [i \in DOMAIN scores |-> scores[i].subject]

\* C4: after updateTestSet(id, data, newScores) on an existing set, findById(id)
\* returns the set with exactly the subjects of newScores, and no score of the
\* prior version is left in the remote or in the local store
C4_AtomicReplace ==
  res.op = "updateTestSet" /\ res.before.existed =>
    /\ \A v \in TestSetFindById(Store, res.arg, configured, TRUE, TRUE) :
         v # Null /\ Subjects(v.scores) = Subjects(res.scores)
    /\ ScoreIds(Store, res.arg) \cap res.before.scoreIds = {}

\* the read in res is of the entity the write in prev returned
ReadsBack(writes) ==
  /\ prev.op \in writes /\ prev.value # Null
  /\ \/ res.op \in {"findById", "findTestSet"} /\ res.arg = EntityOf(prev.value).id
     \/ res.op = "findAll" /\ res.arg = EntityOf(prev.value).userId

\* the read in res shows the entity the write in prev returned
Observed ==
  IF res.op = "findAll" THEN \E i \in DOMAIN res.value : res.value[i] = prev.value
  ELSE res.value = prev.value

\* the read in res is a findById of the id the delete in prev was called with
ReadsDeleted == prev.op = "delete" /\ res.op = "findById" /\ res.arg = prev.arg

DistinctNames(projects) ==
  \A i, j \in DOMAIN projects : projects[i].name = projects[j].name => i = j

ToggledTwice ==
  /\ prev.op = "toggleStatus" /\ res.op = "toggleStatus" /\ prev.arg = res.arg
  /\ prev.before # Null /\ prev.before.status = "todo"

-----------------------------------------------------------------------------
(* Generic delete *)

\* the read in res is a listing for the owner of the entity the delete in prev
\* removed from the local store
ListsDeleted ==
  /\ prev.op = "delete" /\ prev.before # Null
  /\ res.op = "findAll" /\ res.arg = prev.before.userId

\* C11 as stated: after delete(id) has returned, no read, answered by the
\* remote store or by the local one, returns an entity with that id
C11_NeverReadAgain ==
  /\ ReadsDeleted => res.value = Null
  /\ ListsDeleted => \A i \in DOMAIN res.value : res.value[i].id # prev.arg

\* C11, corrected: delete(id) always leaves the local store without an entity
\* of that id, and leaves the remote store without a row of that id when the
\* remote delete succeeded; the read that follows returns no entity of that id
\* when the remote delete succeeded or the local store answers the read
C11_DeleteThenRead ==
  /\ res.op = "delete" =>
        /\ FindIndex(local, res.arg) = 0
        /\ res.rok => ~HasRow(remote, res.arg)
  /\ prev.rok \/ ~res.rok =>
        /\ ReadsDeleted => res.value = Null
        /\ ListsDeleted => \A i \in DOMAIN res.value : res.value[i].id # prev.arg

\* an entity that was in the local store is deleted remotely and locally, and
\* the local store then answers the read of its id with null
C11_Witness ==
  /\ prev.op = "delete" /\ prev.rok /\ prev.before # Null
  /\ res.op = "findById" /\ res.arg = prev.arg /\ ~res.tried /\ res.value = Null

-----------------------------------------------------------------------------
(* The repositories called with identifiers chosen by the caller: an id    *)
(* the client generated, and the id of an entity an older, local-only      *)
(* version wrote, which is not a UUID.                                     *)

\* the id a caller passes to create(): none, an empty one, one it generated
ClientIds == {Undef, "", "c1"}

\* the ids the lookups are made with
LookupIds == {"c1"} \cup LegacyIds

\* the entity of the older version, in the LocalStorage collection of table t
LegacyItem(t) ==
  LET item == CHOOSE i \in NewItems(t) : i.userId = "u1"
  IN Spread(item, [id |-> "legacy", createdAt |-> "t01"])

DoFindByProjectId(projectId, ok) ==
  /\ tbl = "threads"
  /\ \E o \in FindByProjectId(Store, projectId, configured, ok) :
       Return([NoCall EXCEPT !.op = "findByProjectId", !.arg = projectId,
                             !.value = o.value, !.tried = o.tried, !.rok = o.rok], Store)

InitIds ==
  /\ tbl \in GenericTables
  /\ configured \in BOOLEAN
  /\ local \in {<<>>, <<LegacyItem(tbl)>>}
  /\ remote = {} /\ rscores = {} /\ lscores = <<>>
  /\ now = 1 /\ ids = 0 /\ ops = 0
  /\ res = NoCall /\ prev = NoCall
  /\ MapIdle /\ SanIdle /\ UrlIdle /\ AuxIdle

NextIds ==
  \/ \E item \in NewItems(tbl), id \in ClientIds, sess \in Sessions :
       \E ok \in Outcomes(sess) : DoCreate([item EXCEPT !.id = id], sess, ok)
  \/ \E id \in LookupIds, sess \in Sessions : \E ok \in Outcomes(sess) :
       DoFindById(id, sess, ok)
  \/ \E id \in LookupIds, updates \in Updates(tbl), sess \in Sessions :
       \E ok \in Outcomes(sess) : DoUpdate(id, updates, sess, ok)
  \/ \E id \in LookupIds, sess \in Sessions : \E ok \in Outcomes(sess) :
       DoDelete(id, sess, ok)
  \/ \E projectId \in {"p1"} \cup LegacyIds, ok \in BOOLEAN :
       DoFindByProjectId(projectId, ok)

SpecIds == InitIds /\ [][NextIds]_vars

\* the operations that take the id of the entity, and those that take the id
\* of its parent
IdOps == {"findById", "update", "delete"}
ParentIdOps == {"findByProjectId"}

\* C12: an operation called with an id that is not a valid UUID makes no
\* remote request with it
C12_NoRemoteForLegacyId ==
  res.op \in IdOps \cup ParentIdOps /\ ~IsValidUuid(res.arg) => ~res.tried

-----------------------------------------------------------------------------
(* Reading a LocalStorage collection.  The text under a storage key is a   *)
(* sequence of characters; JSON.parse accepts the JSON texts among them.   *)

\* the characters of the stored texts, and the longest text
JsonChars == {"[", "]", "1", ","}
MaxJson == 4

RECURSIVE JsonValues(_)
RECURSIVE JsonBodies(_)

\* the JSON texts of at most n characters: numbers and arrays
JsonValues(n) ==
  IF n <= 0 THEN {}
  ELSE {[i \in 1..k |-> "1"] : k \in 1..n}
         \cup {<<"[">> \o b \o <<"]">> : b \in JsonBodies(n - 2)}

\* the element lists of at most n characters an array can hold
JsonBodies(n) ==
  IF n < 0 THEN {}
  ELSE {<<>>} \cup JsonValues(n)
         \cup {x \in {v \o <<",">> \o b : v \in JsonValues(n - 2),
                                            b \in JsonBodies(n - 2) \ {<<>>}} :
                 Len(x) <= n}

\* JSON.parse(data): the value, or the SyntaxError it throws
JSONparse(data) ==
  IF data \in JsonValues(Len(data))
  THEN [thrown |-> FALSE, value |-> data]
  ELSE [thrown |-> TRUE, value |-> Undef]

\* localStorage.getItem(key): null for an absent key
Absent == <<"null">>

\* data ? JSON.parse(data) : []
ParseOrEmpty(data) ==
  IF data = Absent \/ data = <<>> THEN [thrown |-> FALSE, value |-> <<"[", "]">>]
  ELSE JSONparse(data)

\* try { return data ? JSON.parse(data) : [] } catch { return [] }
ParseOrEmptyCaught(data) ==
  IF ParseOrEmpty(data).thrown THEN [thrown |-> FALSE, value |-> <<"[", "]">>]
  ELSE ParseOrEmpty(data)

\* SupabaseBaseRepository.getFromLocalStorage()
getFromLocalStorage(data) == ParseOrEmpty(data)

\* BaseRepository.getAll()
getAll(data) == ParseOrEmpty(data)

\* TestSetRepository.getLocalSets() and getLocalScores()
getLocalSets(data) == ParseOrEmptyCaught(data)

\* LessonRecordRepository.getLocal()
getLocal(data) == ParseOrEmptyCaught(data)

Readers == {"getFromLocalStorage", "getAll", "getLocalSets", "getLocal"}

\* the texts a storage key can hold
StoredTexts == {Absent} \cup UNION {[1..k -> JsonChars] : k \in 0..MaxJson}

\* a repository reads its collection
ReadLocal ==
  /\ ls.pc = "in"
  /\ LET r == CASE ls.reader = "getFromLocalStorage" -> getFromLocalStorage(ls.raw)
                 [] ls.reader = "getAll" -> getAll(ls.raw)
                 [] ls.reader = "getLocalSets" -> getLocalSets(ls.raw)
                 [] ls.reader = "getLocal" -> getLocal(ls.raw)
     IN ls' = [ls EXCEPT !.pc = "out", !.raised = r.thrown, !.value = r.value]
  /\ UNCHANGED <<mapVars, sanVars, repoVars, urlVars, up, au, ac, procVars>>

InitLocal ==
  /\ ls \in {[pc |-> "in", reader |-> r, raw |-> t, raised |-> FALSE, value |-> Undef] :
               r \in Readers, t \in StoredTexts}
  /\ up = Off /\ au = Off /\ ac = Off /\ ProcIdle
  /\ MapIdle /\ SanIdle /\ RepoIdle /\ UrlIdle /\ configured = FALSE

NextLocal == ReadLocal

SpecLocal == InitLocal /\ [][NextLocal]_vars

\* C13: the read of a local collection never raises, and yields the empty
\* collection when the key is absent or its text is not parseable JSON
C13_LocalReadNeverRaises ==
  ls.pc = "out" =>
    /\ ~ls.raised
    /\ ls.raw = Absent \/ JSONparse(ls.raw).thrown => ls.value = <<"[", "]">>

-----------------------------------------------------------------------------
(* The reads of the repositories when the session probe itself can fail:   *)
(* supabase.auth.getSession() rejects instead of returning a session.      *)
(* hasSupabaseSession() awaits it with no try/catch, so the rejection      *)
(* leaves findAll / findById; hasValidSession() of the lesson records      *)
(* catches it and answers false, which is DoLessonFindById with no session.*)

DoProbeThrows(op, arg) ==
  /\ tbl \in GenericTables /\ configured
  /\ Return([NoCall EXCEPT !.op = op, !.arg = arg, !.raised = TRUE], Store)

NextReads ==
  \/ /\ tbl \in GenericTables
     /\ \E item \in NewItems(tbl), sess \in Sessions : \E ok \in Outcomes(sess) :
          DoCreate(item, sess, ok)
  \/ \E userId \in Users, data \in NewSetData, scores \in ScoreLists, fail \in Failures(2) :
       DoCreateTestSet(userId, data, scores, fail)
  \/ \E userId \in Users, data \in NewLessonData, sess \in Sessions : \E ok \in Outcomes(sess) :
       DoLessonCreate(userId, data, sess, ok)
  \/ \E userId \in Users, sess \in Sessions : \E ok \in Outcomes(sess) :
       DoFindAll(userId, sess, ok)
  \/ \E id \in TargetIds, sess \in Sessions : \E ok \in Outcomes(sess) :
       DoFindById(id, sess, ok)
  \/ \E id \in TargetIds, ok1 \in BOOLEAN, ok2 \in BOOLEAN : DoTestSetFindById(id, ok1, ok2)
  \/ \E id \in TargetIds, sess \in Sessions : \E ok \in Outcomes(sess) :
       DoLessonFindById(id, sess, ok)
  \/ \E userId \in Users : DoProbeThrows("findAll", userId)
  \/ \E id \in TargetIds : DoProbeThrows("findById", id)

SpecReads == Init /\ [][NextReads]_vars

ReadOps == {"findAll", "findById", "findTestSet", "lessonFindById"}

\* the remote query of the read r returned an error
QueryFailed(r) ==
  IF r.op \in {"findTestSet", "lessonFindById"} THEN r.before.failed
  ELSE r.tried /\ ~r.rok

\* what the local store holds for the read r
LocalResult(r) ==
  CASE r.op = "findAll" -> LocalByUser(local, r.arg)
    [] r.op = "findTestSet" ->
         IF FindIndex(local, r.arg) = 0 THEN Null
         ELSE WithScores(LocalFind(local, r.arg),
                         SelectSeq(lscores, LAMBDA x : x.testSetId = r.arg))
    [] OTHER -> LocalFind(local, r.arg)

\* C14: no read lets an exception reach its caller, and a read whose remote
\* query failed returns what the local store holds
C14_ReadsAbsorbFailures ==
  res.op \in ReadOps =>
    /\ ~res.raised
    /\ QueryFailed(res) => res.value = LocalResult(res)

-----------------------------------------------------------------------------
(* uploadAttachment and the owner id of the storage path.  auth: what      *)
(* supabase.auth.getUser() answers; cached: what LocalStorage holds under  *)
(* tutor_ai_current_user; fallback: the fallbackUserId parameter.          *)

\* supabase.auth.getUser(): no user, the user of the session, or a rejection
AuthAnswers == {"none", "s1", "throws"}

\* tutor_ai_current_user: absent, not JSON, a user, a record with no id
CachedUsers == {[kind |-> "absent", id |-> Undef], [kind |-> "malformed", id |-> Undef],
                [kind |-> "user", id |-> "c1"], [kind |-> "user", id |-> Undef]}

\* the null of a string | null
NullId == "null"

\* getCurrentUserId(), without the step that reads tutor_ai_current_user
getCurrentUserIdNoCache(auth, cached) == IF auth = "s1" THEN auth ELSE NullId

\* getCurrentUserId(): string | null
getCurrentUserId(auth, cached) ==
  IF auth \notin {"none", "throws"} THEN auth
  ELSE IF cached.kind \in {"absent", "malformed"} THEN NullId
  ELSE IF Or(cached.id, Undef) = Undef THEN NullId ELSE cached.id

\* uploadAttachment(file, threadId, fallbackUserId): the error it throws, the
\* owner id it used, the path it uploaded to and the uploads it attempted
uploadAttachment(cfg, auth, cached, threadId, fallback, ok) ==
  LET found == getCurrentUserId(auth, cached)
      userId == IF found = NullId /\ Or(fallback, Undef) # Undef THEN fallback ELSE found
      done == [raised |-> "none", owner |-> userId, path |-> <<userId, threadId>>,
               uploads |-> 1]
  IN IF ~cfg
     THEN [raised |-> "config", owner |-> NullId, path |-> <<>>, uploads |-> 0]
     ELSE IF userId = NullId
     THEN [raised |-> "owner", owner |-> NullId, path |-> <<>>, uploads |-> 0]
     ELSE IF ~ok THEN [done EXCEPT !.raised = "upload"]
     ELSE done

Upload ==
  /\ up.pc = "in"
  /\ up' = [up EXCEPT !.pc = "out",
                       !.out = uploadAttachment(up.cfg, up.auth, up.cached, "th1",
                                                up.fallback, up.ok)]
  /\ UNCHANGED <<mapVars, sanVars, repoVars, urlVars, ls, au, ac, procVars>>

InitUp ==
  /\ up \in {[pc |-> "in", cfg |-> c, auth |-> a, cached |-> u, fallback |-> f,
               ok |-> k, out |-> Null] :
               c \in BOOLEAN, a \in AuthAnswers, u \in CachedUsers,
               f \in {Undef, "", "f1"}, k \in BOOLEAN}
  /\ ls = Off /\ au = Off /\ ac = Off /\ ProcIdle
  /\ MapIdle /\ SanIdle /\ RepoIdle /\ UrlIdle /\ configured = FALSE

NextUp == Upload

SpecUp == InitUp /\ [][NextUp]_vars

\* the fallbackUserId parameter carries an id
HasFallback == Or(up.fallback, Undef) # Undef

\* the cached current user carries an id
HasCachedId == up.cached.kind = "user" /\ Or(up.cached.id, Undef) # Undef

\* C15 as stated: the owner id is the subject of the session, else the
\* fallbackOwnerId parameter, else the call fails before any upload
C15_SessionElseFallback ==
  up.pc = "out" /\ up.cfg =>
    IF up.auth = "s1" THEN up.out.owner = "s1"
    ELSE IF HasFallback THEN up.out.owner = up.fallback
    ELSE up.out.raised = "owner" /\ up.out.uploads = 0

\* C15, corrected: the owner id is the subject of the session, else the id of
\* the current user cached in LocalStorage, else the fallbackOwnerId
\* parameter, else the call fails with the owner error before any upload; a
\* call made with no remote configuration fails before it looks for an owner
C15_OwnerResolution ==
  up.pc = "out" =>
    IF ~up.cfg THEN up.out.raised = "config" /\ up.out.uploads = 0
    ELSE IF up.auth = "s1" THEN up.out.owner = "s1" /\ up.out.path[1] = "s1"
    ELSE IF HasCachedId
    THEN up.out.owner = up.cached.id /\ up.out.path[1] = up.cached.id
    ELSE IF HasFallback THEN up.out.owner = up.fallback /\ up.out.path[1] = up.fallback
    ELSE up.out.raised = "owner" /\ up.out.uploads = 0

\* with no session, the cached user's id is used although a fallback was given
C15_Witness ==
  /\ up.pc = "out" /\ up.cfg /\ up.auth = "none" /\ HasCachedId /\ HasFallback
  /\ up.out.raised = "none" /\ up.out.owner = "c1"

-----------------------------------------------------------------------------
(* The effect AuthProvider runs when it mounts, in its two versions: "ctx" *)
(* is contexts/AuthContext.tsx, "main" the provider of main.tsx.  The      *)
(* provider is mounted once and stays mounted, so isMounted is true.       *)
(* user and cached hold the id of a User; cached is the text LocalStorage  *)
(* keeps under tutor_ai_current_user.                                      *)

MaxEvents == 3

\* JSON.parse of the cached text inside the callers' try blocks
ParsedUser(cached) == IF cached \in {"absent", "malformed"} THEN NullId ELSE cached

\* clearTimeout(timeoutId)
ClearTimeout(timer) == IF timer = "armed" THEN "cleared" ELSE timer

\* setLoading(false) in "ctx"; resolveLoading() in "main"
ResolveLoading(a) ==
  IF a.v = "main" /\ a.resolved THEN a
  ELSE [a EXCEPT !.loading = FALSE, !.resolved = (a.v = "main")]

\* the callback of setTimeout, leaving loading as it is
TimeoutKeepLoading ==
  /\ au.pc = "mounted" /\ au.timer = "armed"
  /\ au' = [au EXCEPT !.timer = "fired"]
  /\ UNCHANGED <<mapVars, sanVars, repoVars, urlVars, ls, up, ac, procVars>>

\* the callback of setTimeout
Timeout ==
  /\ au.pc = "mounted" /\ au.timer = "armed"
  /\ LET restore == au.cached # "absent" /\ ParsedUser(au.cached) # NullId
         fired == [au EXCEPT !.timer = "fired"]
         restored == [fired EXCEPT !.user = IF restore THEN ParsedUser(au.cached) ELSE au.user]
     IN au' = IF au.v = "main" /\ au.resolved THEN fired ELSE ResolveLoading(restored)
  /\ UNCHANGED <<mapVars, sanVars, repoVars, urlVars, ls, up, ac, procVars>>

\* supabase.auth.getSession() resolves: the then callback, up to its await
SessionReturns(sess) ==
  /\ au.pc = "mounted" /\ au.cfg /\ au.probe = "pending"
  /\ LET set == [au EXCEPT !.user = sess,
                           !.cached = IF sess = NullId THEN "absent" ELSE sess]
         cleared == [set EXCEPT !.timer = ClearTimeout(au.timer), !.probe = "done"]
     IN au' = IF au.v = "ctx" /\ sess # NullId THEN [set EXCEPT !.probe = "init"]
              ELSE ResolveLoading(cleared)
  /\ UNCHANGED <<mapVars, sanVars, repoVars, urlVars, ls, up, ac, procVars>>

\* "ctx": initializeProjectsOnce resolves and the callback that awaited it ends
ProjectsInitialised ==
  /\ au.pc = "mounted" /\ au.probe = "init"
  /\ au' = ResolveLoading([au EXCEPT !.timer = ClearTimeout(au.timer), !.probe = "done"])
  /\ UNCHANGED <<mapVars, sanVars, repoVars, urlVars, ls, up, ac, procVars>>

\* supabase.auth.getSession() rejects: the catch callback
SessionFails ==
  /\ au.pc = "mounted" /\ au.cfg /\ au.probe = "pending"
  /\ au' = ResolveLoading([au EXCEPT !.timer = ClearTimeout(au.timer), !.probe = "done"])
  /\ UNCHANGED <<mapVars, sanVars, repoVars, urlVars, ls, up, ac, procVars>>

\* initAuth(), the branch taken with no remote configuration
RestoreLocal ==
  /\ au.pc = "mounted" /\ ~au.cfg /\ au.probe = "pending"
  /\ LET set == [au EXCEPT !.user = ParsedUser(au.cached)]
         cleared == [set EXCEPT !.timer = ClearTimeout(au.timer), !.probe = "done"]
     IN au' = IF au.v = "ctx" /\ set.user # NullId THEN [set EXCEPT !.probe = "init"]
              ELSE ResolveLoading(cleared)
  /\ UNCHANGED <<mapVars, sanVars, repoVars, urlVars, ls, up, ac, procVars>>

\* the callback of onAuthStateChange
AuthStateChange(event, sess) ==
  /\ au.pc = "mounted" /\ au.cfg /\ au.events < MaxEvents
  /\ LET counted == [au EXCEPT !.events = au.events + 1]
         signedIn == [counted EXCEPT !.user = sess, !.cached = sess]
     IN au' = IF event = "SIGNED_IN" /\ sess # NullId
              THEN IF au.v = "main"
                   THEN ResolveLoading([signedIn EXCEPT !.timer = ClearTimeout(au.timer)])
                   ELSE signedIn
              ELSE IF event = "SIGNED_OUT"
              THEN [counted EXCEPT !.user = NullId, !.cached = "absent"]
              ELSE counted
  /\ UNCHANGED <<mapVars, sanVars, repoVars, urlVars, ls, up, ac, procVars>>

InitStart ==
  /\ au \in {[pc |-> "mounted", v |-> v, cfg |-> c, loading |-> TRUE, user |-> NullId,
               cached |-> u, timer |-> "armed", probe |-> "pending",
               resolved |-> FALSE, events |-> 0] :
               v \in {"ctx", "main"}, c \in BOOLEAN, u \in {"absent", "malformed", "c1"}}
  /\ ls = Off /\ up = Off /\ ac = Off /\ ProcIdle
  /\ MapIdle /\ SanIdle /\ RepoIdle /\ UrlIdle /\ configured = FALSE

NextStart ==
  \/ Timeout
  \/ \E sess \in {NullId, "s1"} : SessionReturns(sess)
  \/ ProjectsInitialised
  \/ SessionFails
  \/ RestoreLocal
  \/ \E event \in {"SIGNED_IN", "SIGNED_OUT", "TOKEN_REFRESHED"}, sess \in {NullId, "s1"} :
        AuthStateChange(event, sess)

\* a timer that was set and not cleared fires; nothing else is sure to happen
SpecStart == InitStart /\ [][NextStart]_vars /\ WF_vars(Timeout)

\* C16: once the provider is mounted, loading becomes false even if the
\* session check never returns; a timeout that fires then sets the user to
\* the cached current user when LocalStorage holds one that parses
C16_StartupLiveness ==
  /\ (au.pc = "mounted" /\ au.loading) ~> ~au.loading
  /\ [][au.timer = "armed" /\ au'.timer = "fired" /\ au.probe = "pending"
          => /\ ~au'.loading
             /\ ParsedUser(au.cached) # NullId => au'.user = ParsedUser(au.cached)]_vars

\* the timer fired while the session check was pending and restored the user
C16_Witness ==
  /\ au.pc = "mounted" /\ au.cfg /\ au.timer = "fired" /\ au.probe = "pending"
  /\ ~au.loading /\ au.user = "c1" /\ au.cached = "c1"

-----------------------------------------------------------------------------
(* AuthService over the local user store (tutor_ai_users) and the cached   *)
(* current user (tutor_ai_current_user).  A User is [id, email]; answer is *)
(* what the remote auth call gives: an error, a user, or neither.          *)

MaxAuthOps == 3

Emails == {"a@x", "b@x"}

\* the id the remote auth system gives the account of an email
Subject(email) == IF email = "a@x" THEN "sa" ELSE "sb"

NoUser == [id |-> NullId, email |-> ""]

\* generateId() for the next user of the local store
NewUserId(users) == <<"l1", "l2", "l3", "l4">>[Len(users) + 1]

\* UserRepository.findByEmail(email): User | undefined
findByEmail(users, email) ==
  LET at == {i \in DOMAIN users : users[i].email = email}
  IN IF at = {} THEN NoUser ELSE users[CHOOSE i \in at : \A j \in at : i <= j]

\* UserRepository.createUserWithId(id, email)
createUserWithId(users, id, email) ==
  IF findByEmail(users, email) # NoUser
  THEN [users |-> users, user |-> findByEmail(users, email)]
  ELSE [users |-> Append(users, [id |-> id, email |-> email]),
        user |-> [id |-> id, email |-> email]]

\* the outcome of a call: the stores after it, what it returned or threw, and
\* the subject the remote auth call answered with
AuthOutcome(op, cfg, users, current, ret, raised, subject) ==
  [pc |-> "on", op |-> op, cfg |-> cfg, users |-> users, current |-> current,
   ret |-> ret, raised |-> raised, subject |-> subject]

\* AuthService.login(email, password)
login(a, email, answer) ==
  LET found == findByEmail(a.users, email)
      made == [id |-> NewUserId(a.users), email |-> email]
      user == IF found # NoUser THEN found ELSE made
      stored == IF found # NoUser THEN a.users ELSE Append(a.users, made)
      authUser == [id |-> Subject(email), email |-> email]
  IN IF a.cfg /\ answer = "error"
     THEN AuthOutcome("login", a.cfg, a.users, a.current, NoUser, TRUE, NullId)
     ELSE IF a.cfg /\ answer = "user"
     THEN AuthOutcome("login", a.cfg, a.users, authUser, authUser, FALSE, authUser.id)
     ELSE AuthOutcome("login", a.cfg, stored, user, user, FALSE, NullId)

\* AuthService.register(email, password)
register(a, email, answer) ==
  LET found == findByEmail(a.users, email)
      made == [id |-> NewUserId(a.users), email |-> email]
      kept == createUserWithId(a.users, Subject(email), email)
  IN IF a.cfg /\ answer = "error"
     THEN AuthOutcome("register", a.cfg, a.users, a.current, NoUser, TRUE, NullId)
     ELSE IF a.cfg /\ answer = "user"
     THEN AuthOutcome("register", a.cfg, kept.users, kept.user, kept.user, FALSE,
                      Subject(email))
     ELSE IF found # NoUser
     THEN AuthOutcome("register", a.cfg, a.users, a.current, NoUser, TRUE, NullId)
     ELSE AuthOutcome("register", a.cfg, Append(a.users, made), made, made, FALSE, NullId)

\* AuthService.restoreSession(); answer "user" is a session of email
restoreSession(a, email, answer) ==
  LET authUser == [id |-> Subject(email), email |-> email]
  IN IF a.cfg /\ answer = "error"
     THEN AuthOutcome("restoreSession", a.cfg, a.users, a.current, NoUser, TRUE, NullId)
     ELSE IF a.cfg /\ answer = "user"
     THEN AuthOutcome("restoreSession", a.cfg, a.users, authUser, authUser, FALSE, authUser.id)
     ELSE AuthOutcome("restoreSession", a.cfg, a.users, a.current, a.current, FALSE, NullId)

DoLogin(email, answer) ==
  /\ ac.pc = "on" /\ Len(ac.users) < MaxAuthOps
  /\ ac' = login(ac, email, answer)
  /\ UNCHANGED <<mapVars, sanVars, repoVars, urlVars, ls, up, au, procVars>>

DoRegister(email, answer) ==
  /\ ac.pc = "on" /\ Len(ac.users) < MaxAuthOps
  /\ ac' = register(ac, email, answer)
  /\ UNCHANGED <<mapVars, sanVars, repoVars, urlVars, ls, up, au, procVars>>

DoRestoreSession(email, answer) ==
  /\ ac.pc = "on"
  /\ ac' = restoreSession(ac, email, answer)
  /\ UNCHANGED <<mapVars, sanVars, repoVars, urlVars, ls, up, au, procVars>>

InitAuth ==
  /\ \E cfg \in BOOLEAN, users \in {<<>>, <<[id |-> "l1", email |-> "a@x"]>>} :
        ac = AuthOutcome("none", cfg, users, NoUser, NoUser, FALSE, NullId)
  /\ ls = Off /\ up = Off /\ au = Off /\ ProcIdle
  /\ MapIdle /\ SanIdle /\ RepoIdle /\ UrlIdle /\ configured = FALSE

NextAuth ==
  \E email \in Emails, answer \in {"error", "user", "none"} :
    \/ DoLogin(email, answer)
    \/ DoRegister(email, answer)
    \/ DoRestoreSession(email, answer)

SpecAuth == InitAuth /\ [][NextAuth]_vars

\* C17: when remote auth is active and answers with a user, the User that
\* login, register and session restore return and store as the current user
\* has the id of that remote subject, whatever the local user store holds
C17_RemoteSubjectId ==
  ac.cfg /\ ac.subject # NullId =>
    ac.ret.id = ac.subject /\ ac.current.id = ac.subject

-----------------------------------------------------------------------------
\* the remote score rows of set id are exactly the scores passed
RemoteScoresMatch(id, scores) ==
  \E q \in Orders({r \in rscores : r.test_set_id = id}) :
    /\ Len(q) = Len(scores)
    /\ \A i \in DOMAIN q : q[i].subject = scores[i].subject /\ q[i].score = scores[i].score

\* the local scores of set id are exactly the scores passed
LocalScoresMatch(id, scores) ==
  LET q == SelectSeq(lscores, LAMBDA x : x.testSetId = id)
  IN /\ Len(q) = Len(scores)
     /\ \A i \in DOMAIN q : q[i].subject = scores[i].subject /\ q[i].score = scores[i].score

\* C18: after createTestSet or updateTestSet returns, whichever remote step
\* failed, a store that holds the TestSet row the call wrote holds with it
\* exactly the scores passed to the call
C18_WrittenAsUnit ==
  /\ res.op = "createTestSet" =>
        /\ \A r \in remote :
             r.id \notin res.before.rsets => RemoteScoresMatch(r.id, res.scores)
        /\ \A i \in DOMAIN local :
             local[i].id \notin res.before.lsets => LocalScoresMatch(local[i].id, res.scores)
  /\ res.op = "updateTestSet" =>
        /\ HasRow(remote, res.arg) /\ RowOf(remote, res.arg) # res.before.rrow
             => RemoteScoresMatch(res.arg, res.scores)
        /\ FindIndex(local, res.arg) # 0 /\ LocalFind(local, res.arg) # res.before.lrow
             => LocalScoresMatch(res.arg, res.scores)

-----------------------------------------------------------------------------
\* the local entities with an id
LocalWithId(id) == {i \in DOMAIN local : local[i].id = id}

-----------------------------------------------------------------------------
\* the create in res took the remote-capable path: a row was sent
SentRow == res.op = "create" /\ res.before.sent # Null

\* C19 as stated: the row generic create sends to the remote store carries no
\* id, whatever id the client supplied
C19_IdStripped == SentRow => res.before.sent.id = Undef

\* C19, corrected: the row generic create sends carries no id only when the
\* client supplied none or an empty one, and the remote store then generates
\* the primary key; a non-empty client-supplied id is sent as it is and is the
\* primary key of the row the remote store holds and create returns
C19_PayloadId ==
  SentRow =>
    LET given == Get(res.before.item, "id")
    IN IF given \in {Undef, ""}
       THEN /\ res.before.sent.id = Undef
            /\ res.rok => res.value.id \notin ClientIds /\ HasRow(remote, res.value.id)
       ELSE /\ res.before.sent.id = given
            /\ res.rok => res.value.id = given /\ HasRow(remote, given)

\* a create with the client's id c1 reached the remote store under that id
C19_Witness ==
  /\ SentRow /\ res.rok /\ Get(res.before.item, "id") = "c1"
  /\ res.before.sent.id = "c1" /\ HasRow(remote, "c1")

-----------------------------------------------------------------------------
\* C21: generic delete(id) returns true exactly when an entity with the id
\* existed in the store that performed the authoritative delete: the remote
\* store when the remote delete succeeded, the local store otherwise
C21_DeleteReturnsExisted ==
  res.op = "delete" =>
    (res.value.deleted <=> IF res.rok THEN res.had ELSE res.before # Null)

-----------------------------------------------------------------------------
\* C22: after a delete(id) of a lesson record whose remote delete succeeded,
\* the local store holds no lesson record with the id
C22_LessonDeleteMirrors ==
  res.op = "lessonDelete" /\ res.rok /\ ~res.raised => FindIndex(local, res.arg) = 0

-----------------------------------------------------------------------------
\* C23: after deleteTestSet(id) returns without error, on the remote path and
\* on the local path, the local store holds neither the set with the id nor a
\* score of that set, and the other local sets and scores are as they were
C23_DeleteCascadesLocally ==
  res.op = "deleteTestSet" /\ ~res.raised =>
    /\ FindIndex(local, res.arg) = 0
    /\ \A i \in DOMAIN lscores : lscores[i].testSetId # res.arg
    /\ local = SelectSeq(res.before.local, LAMBDA x : x.id # res.arg)
    /\ lscores = SelectSeq(res.before.lscores, LAMBDA x : x.testSetId # res.arg)

\* a remote delete removed a local set and its score and left another set
C23_Witness ==
  /\ res.op = "deleteTestSet" /\ ~res.raised /\ res.rok
  /\ FindIndex(res.before.local, res.arg) # 0
  /\ \E i \in DOMAIN res.before.lscores : res.before.lscores[i].testSetId = res.arg
  /\ local # <<>>

-----------------------------------------------------------------------------
(* Two toggleStatus(id) calls on one homework item, each suspended between *)
(* its findById and its update.  order lists the steps taken so far.       *)

\* the update of toggleStatus, computed from the status stored when it runs
ToggleUpdateFresh(s, homework, id, ts, sess, ok) ==
  Update("homework", s, id,
         [status |-> Flip(FindById("homework", s, id, sess, ok).status)], ts, sess, ok)

\* this.update(id, { status: homework.status === 'todo' ? 'done' : 'todo' })
ToggleUpdate(s, homework, id, ts, sess, ok) ==
  Update("homework", s, id, [status |-> Flip(homework.status)], ts, sess, ok)

\* const homework = await this.findById(id); if (!homework) return null
ToggleRead(p, sess, ok) ==
  /\ tg.pc = "on" /\ tg.p[p].pc = "start"
  /\ LET homework == FindById("homework", Store, tg.id, sess, ok)
     IN tg' = [tg EXCEPT !.p[p] = [pc |-> IF homework = Null THEN "done" ELSE "read",
                                   read |-> homework, value |-> Null,
                                   rpath |-> IF sess /\ ok /\ HasRow(remote, tg.id)
                                             THEN "remote" ELSE "local",
                                   wpath |-> "none"],
                         !.order = Append(@, <<"read", p>>)]
  /\ UNCHANGED <<mapVars, sanVars, repoVars, urlVars, ls, up, au, ac, rm, dp, ip, cp>>

\* return this.update(id, ...)
ToggleWrite(p, sess, ok) ==
  /\ tg.pc = "on" /\ tg.p[p].pc = "read"
  /\ LET o == ToggleUpdate(Store, tg.p[p].read, tg.id, toISOString(now), sess, ok)
     IN /\ remote' = o.s.remote /\ local' = o.s.local
        /\ tg' = [tg EXCEPT !.p[p].pc = "done", !.p[p].value = o.value,
                            !.p[p].wpath = IF o.rok THEN "remote" ELSE "local",
                            !.order = Append(@, <<"write", p>>)]
  /\ UNCHANGED <<configured, tbl, rscores, lscores, now, ids, ops, res, prev>>
  /\ UNCHANGED <<mapVars, sanVars, urlVars, ls, up, au, ac, rm, dp, ip, cp>>

InitToggle ==
  /\ tbl = "homework" /\ configured \in BOOLEAN
  /\ \E item \in NewItems("homework"), status \in {"todo", "done"} :
       LET made == Create("homework",
                          [remote |-> {}, local |-> <<>>, rscores |-> {},
                           lscores |-> <<>>, ids |-> 0],
                          [item EXCEPT !.status = status], toISOString(1),
                          configured, TRUE)
       IN /\ remote = made.s.remote /\ local = made.s.local /\ ids = made.s.ids
          /\ tg = [pc |-> "on", id |-> made.value.id, orig |-> status, order |-> <<>>,
                   p |-> [i \in 1..2 |-> [pc |-> "start", read |-> Null, value |-> Null,
                                           rpath |-> "none", wpath |-> "none"]]]
  /\ rscores = {} /\ lscores = <<>> /\ now = 1 /\ ops = 0
  /\ res = NoCall /\ prev = NoCall
  /\ MapIdle /\ SanIdle /\ UrlIdle
  /\ ls = Off /\ up = Off /\ au = Off /\ ac = Off
  /\ rm = Off /\ dp = Off /\ ip = Off /\ cp = Off

NextToggle ==
  \/ \E p \in 1..2, sess \in Sessions : \E ok \in Outcomes(sess) : ToggleRead(p, sess, ok)
  \/ \E p \in 1..2, sess \in Sessions : \E ok \in Outcomes(sess) : ToggleWrite(p, sess, ok)

SpecToggle == InitToggle /\ [][NextToggle]_vars

\* both calls have returned, and every step of both used the same store
BothToggled ==
  /\ tg.pc = "on" /\ \A p \in 1..2 : tg.p[p].pc = "done" /\ tg.p[p].value # Null
  /\ \E path \in {"remote", "local"} :
       \A p \in 1..2 : tg.p[p].rpath = path /\ tg.p[p].wpath = path

\* both calls read before either wrote
Interleaved == tg.order[1][1] = "read" /\ tg.order[2][1] = "read"

\* the status the store the calls used holds
StoredStatus ==
  IF tg.p[1].wpath = "remote" THEN RowOf(remote, tg.id).status
  ELSE LocalFind(local, tg.id).status

\* C24: two toggleStatus calls on one item that interleave at their
\* suspension points both read the same status, and after both complete the
\* status has changed once; two calls that run one after the other return it
\* to its original value
C24_LostUpdate ==
  BothToggled =>
    /\ \A p \in 1..2 : tg.p[p].value.status = Flip(tg.p[p].read.status)
    /\ Interleaved => /\ tg.p[1].read.status = tg.p[2].read.status
                      /\ StoredStatus = Flip(tg.orig)
    /\ ~Interleaved => StoredStatus = tg.orig

\* both calls read the original status and the item ends up toggled once
C24_Witness ==
  /\ BothToggled /\ Interleaved
  /\ tg.p[1].read.status = tg.orig /\ tg.p[2].read.status = tg.orig
  /\ StoredStatus # tg.orig

-----------------------------------------------------------------------------
-----------------------------------------------------------------------------
(* createSignedUrl and removeAttachment in flight together.  Each call is  *)
(* three steps: up to its await, the remote store handling the request,    *)
(* and the continuation.  objects: the paths the bucket holds; removed:    *)
(* the paths whose removeAttachment has returned.                          *)

MaxCalls == 2

IdleCall == [pc |-> "idle", path |-> NoUrl, at |-> 0, expiresIn |-> 0, url |-> NoUrl,
             error |-> FALSE, raised |-> FALSE, cached |-> FALSE]

\* createSignedUrl up to the await of supabase.storage...createSignedUrl
CreateStart(path, expiresIn) ==
  /\ rm.pc = "on" /\ rm.c.pc \in {"idle", "done"} /\ rm.calls < MaxCalls
  /\ LET call == [IdleCall EXCEPT !.path = path, !.at = clock, !.expiresIn = expiresIn]
     IN rm' = [rm EXCEPT !.calls = rm.calls + 1,
                         !.c = IF ~configured
                               THEN [call EXCEPT !.pc = "done", !.raised = TRUE]
                               ELSE IF CacheHit(cache[path], clock)
                               THEN [call EXCEPT !.pc = "done", !.url = cache[path].url,
                                                 !.cached = TRUE]
                               ELSE [call EXCEPT !.pc = "sent"]]
  /\ UNCHANGED <<mapVars, sanVars, repoVars, urlVars, ls, up, au, ac, tg, dp, ip, cp>>

\* the remote store signs a URL for an object it holds
CreateRemote(ok) ==
  /\ rm.pc = "on" /\ rm.c.pc = "sent" /\ signed < MaxSigned
  /\ IF ok /\ rm.c.path \in rm.objects
     THEN /\ signed' = signed + 1
          /\ rm' = [rm EXCEPT !.c.pc = "answered", !.c.url = SignedUrl(signed + 1)]
     ELSE /\ rm' = [rm EXCEPT !.c.pc = "answered", !.c.error = TRUE]
          /\ UNCHANGED signed
  /\ UNCHANGED <<cache, clock, ur>>
  /\ UNCHANGED <<mapVars, sanVars, repoVars, ls, up, au, ac, tg, dp, ip, cp>>

\* createSignedUrl after the await: throw, or signedUrlCache.set and return
CreateFinish ==
  /\ rm.pc = "on" /\ rm.c.pc = "answered"
  /\ IF rm.c.error
     THEN /\ rm' = [rm EXCEPT !.c.pc = "done", !.c.raised = TRUE]
          /\ UNCHANGED cache
     ELSE /\ rm' = [rm EXCEPT !.c.pc = "done"]
          /\ cache' = [cache EXCEPT ![rm.c.path] =
                         [url |-> rm.c.url, expiresAt |-> rm.c.at + rm.c.expiresIn]]
  /\ UNCHANGED <<clock, signed, ur>>
  /\ UNCHANGED <<mapVars, sanVars, repoVars, ls, up, au, ac, tg, dp, ip, cp>>

\* removeAttachment up to the await of supabase.storage...remove
RemoveStart(path) ==
  /\ rm.pc = "on" /\ rm.r.pc = "idle"
  /\ rm' = [rm EXCEPT !.r = IF ~configured
                             THEN [IdleCall EXCEPT !.path = path, !.pc = "done",
                                                   !.raised = TRUE]
                             ELSE [IdleCall EXCEPT !.path = path, !.pc = "sent"]]
  /\ UNCHANGED <<mapVars, sanVars, repoVars, urlVars, ls, up, au, ac, tg, dp, ip, cp>>

\* the remote store removes the object
RemoveRemote(ok) ==
  /\ rm.pc = "on" /\ rm.r.pc = "sent"
  /\ rm' = IF ok THEN [rm EXCEPT !.r.pc = "answered", !.objects = @ \ {rm.r.path}]
            ELSE [rm EXCEPT !.r.pc = "answered", !.r.error = TRUE]
  /\ UNCHANGED <<mapVars, sanVars, repoVars, urlVars, ls, up, au, ac, tg, dp, ip, cp>>

\* removeAttachment after the await: throw, or signedUrlCache.delete(path)
RemoveFinish ==
  /\ rm.pc = "on" /\ rm.r.pc = "answered"
  /\ IF rm.r.error
     THEN /\ rm' = [rm EXCEPT !.r.pc = "done", !.r.raised = TRUE]
          /\ UNCHANGED cache
     ELSE /\ rm' = [rm EXCEPT !.r.pc = "done", !.removed = @ \cup {rm.r.path}]
          /\ cache' = [cache EXCEPT ![rm.r.path] = NoEntry]
  /\ UNCHANGED <<clock, signed, ur>>
  /\ UNCHANGED <<mapVars, sanVars, repoVars, ls, up, au, ac, tg, dp, ip, cp>>

InitRemove ==
  /\ configured \in BOOLEAN
  /\ rm = [pc |-> "on", objects |-> Paths, removed |-> {}, calls |-> 0,
           c |-> IdleCall, r |-> IdleCall]
  /\ UrlIdle /\ MapIdle /\ SanIdle /\ RepoIdle
  /\ ls = Off /\ up = Off /\ au = Off /\ ac = Off
  /\ tg = Off /\ dp = Off /\ ip = Off /\ cp = Off

NextRemove ==
  \/ \E path \in Paths, expiresIn \in ExpiryChoices : CreateStart(path, expiresIn)
  \/ \E ok \in BOOLEAN : CreateRemote(ok)
  \/ CreateFinish
  \/ \E path \in Paths : RemoveStart(path)
  \/ \E ok \in BOOLEAN : RemoveRemote(ok)
  \/ RemoveFinish

SpecRemove == InitRemove /\ [][NextRemove]_vars

\* C28: once removeAttachment(path) has returned, the cache holds no entry
\* for path and no createSignedUrl(path) is served from the cache, also when
\* a createSignedUrl(path) was in flight while the removal ran
C28_NoEntryAfterRemoval ==
  rm.pc = "on" =>
    /\ \A path \in rm.removed : cache[path] = NoEntry
    /\ rm.c.pc = "done" /\ rm.c.cached => rm.c.path \notin rm.removed

-----------------------------------------------------------------------------
(* ProjectService.initializeDefaultProjects over the projects repository,  *)
(* with no other writer.  The stores start empty, or with the project Math *)
(* of user u1: created on this browser (remote row and local mirror, or    *)
(* local only with no remote configuration) or on another one (remote row  *)
(* only).                                                                  *)

MaxInits == 2

\* ['国語', '数学', '英語', '理科', '社会']
DefaultProjects == <<"Japanese", "Math", "English", "Science", "Social">>

RECURSIVE CreateMissing(_, _, _, _, _, _, _, _)
\* for (const name of defaultProjects) from position i on; out: the stores so
\* far, nextProjects and the names created; oks[i]: the i-th insert succeeds
CreateMissing(out, userId, i, existingNames, ts, sess, oks, names) ==
  IF i > Len(names) THEN out
  ELSE IF names[i] \in existingNames
  THEN CreateMissing(out, userId, i + 1, existingNames, ts, sess, oks, names)
  ELSE LET o == Create("projects", out.s,
                       Spread(Blank("projects"), [userId |-> userId, name |-> names[i]]),
                       ts, sess, oks[i])
       IN CreateMissing([s |-> o.s, value |-> Append(out.value, o.value),
                         created |-> Append(out.created, names[i])],
                        userId, i + 1, existingNames, ts, sess, oks, names)

\* initializeDefaultProjects(userId), for a listing findByUserId returned
InitializeDefaultProjects(s, userId, listed, ts, sess, oks) ==
  LET n == normalizeProjects(listed)
      s1 == DeleteAll(s, n.duplicates, 1, sess, [i \in DOMAIN n.duplicates |-> TRUE])
      existingNames == {n.unique[i].name : i \in DOMAIN n.unique}
  IN CreateMissing([s |-> s1, value |-> n.unique, created |-> <<>>],
                   userId, 1, existingNames, ts, sess, oks, DefaultProjects)

\* the names of the projects a user has, in the remote or in the local store
NamesOf(userId) ==
  {r.name : r \in RowsOfUser(remote, userId)}
    \cup {local[i].name : i \in {j \in DOMAIN local : local[j].userId = userId}}

DoInitializeDefaultProjects(userId, sess1, ok1, sess2, oks) ==
  /\ dp.pc = "on" /\ dp.calls < MaxInits
  /\ \E listed \in FindAll("projects", Store, userId, sess1, ok1) :
       LET o == InitializeDefaultProjects(Store, userId, listed, toISOString(now),
                                          sess2, oks)
       IN /\ remote' = o.s.remote /\ local' = o.s.local /\ ids' = o.s.ids
          /\ dp' = [pc |-> "on", calls |-> dp.calls + 1, userId |-> userId,
                    had |-> NamesOf(userId), listed |-> listed,
                    created |-> o.created, value |-> o.value]
  /\ UNCHANGED <<configured, tbl, rscores, lscores, now, ops, res, prev>>
  /\ UNCHANGED <<mapVars, sanVars, urlVars, ls, up, au, ac, tg, rm, ip, cp>>

InitDefaults ==
  /\ tbl = "projects" /\ configured \in BOOLEAN
  /\ LET empty == [remote |-> {}, local |-> <<>>, rscores |-> {}, lscores |-> <<>>,
                   ids |-> 0]
         made == Create("projects", empty,
                        Spread(Blank("projects"), [userId |-> "u1", name |-> "Math"]),
                        toISOString(1), configured, TRUE).s
     IN \E s \in {empty, made, [made EXCEPT !.local = <<>>]} :
          remote = s.remote /\ local = s.local /\ ids = s.ids
  /\ dp = [pc |-> "on", calls |-> 0, userId |-> Undef, had |-> {}, listed |-> <<>>,
           created |-> <<>>, value |-> <<>>]
  /\ rscores = {} /\ lscores = <<>> /\ now = 1 /\ ops = 0
  /\ res = NoCall /\ prev = NoCall
  /\ MapIdle /\ SanIdle /\ UrlIdle
  /\ ls = Off /\ up = Off /\ au = Off /\ ac = Off
  /\ tg = Off /\ rm = Off /\ ip = Off /\ cp = Off

NextDefaults ==
  \E sess1 \in Sessions, sess2 \in Sessions :
    \E ok1 \in Outcomes(sess1), oks \in [DOMAIN DefaultProjects -> Outcomes(sess2)] :
      DoInitializeDefaultProjects("u1", sess1, ok1, sess2, oks)

SpecDefaults == InitDefaults /\ [][NextDefaults]_vars

\* C26: initializeDefaultProjects(userId) creates a project only for the
\* default names the user does not have yet, and with no concurrent writer the
\* list it returns holds exactly one project for each default name
C26_SeedsMissingOnly ==
  dp.pc = "on" /\ dp.calls > 0 =>
    /\ \A i \in DOMAIN dp.created : dp.created[i] \notin dp.had
    /\ \A k \in DOMAIN DefaultProjects :
         Cardinality({i \in DOMAIN dp.value : dp.value[i].name = DefaultProjects[k]}) = 1

-----------------------------------------------------------------------------
(* initializeProjectsOnce of one AuthProvider instance.  initialized is    *)
(* projectsInitializedRef.current; started counts, per user id, the calls  *)
(* of initializeDefaultProjects; running holds the ids whose call has not  *)
(* returned; calls counts the calls of initializeProjectsOnce.             *)

MaxLogins == 2

\* initializeProjectsOnce(userId) that records the id only after the await
initializeProjectsOnceLate(a, userId) ==
  [a EXCEPT !.calls[userId] = @ + 1, !.started[userId] = @ + 1,
            !.running = @ \cup {userId}]

\* initializeProjectsOnce(userId), up to its await
initializeProjectsOnce(a, userId) ==
  IF userId \in a.initialized THEN [a EXCEPT !.calls[userId] = @ + 1]
  ELSE [a EXCEPT !.calls[userId] = @ + 1, !.initialized = @ \cup {userId},
                 !.started[userId] = @ + 1, !.running = @ \cup {userId}]

\* getSession().then (or initAuth with no remote configuration): sess is the
\* id of the user of the session, NullId for none
SessionChecked(sess) ==
  /\ ip.pc = "on" /\ ip.probe = "pending"
  /\ ip' = IF sess = NullId THEN [ip EXCEPT !.probe = "done"]
            ELSE initializeProjectsOnce([ip EXCEPT !.probe = "done"], sess)
  /\ UNCHANGED <<mapVars, sanVars, repoVars, urlVars, ls, up, au, ac, tg, rm, dp, cp>>

\* the callback of onAuthStateChange for SIGNED_IN
SignedIn(userId) ==
  /\ ip.pc = "on" /\ configured /\ ip.events < MaxEvents
  /\ ip' = initializeProjectsOnce([ip EXCEPT !.events = @ + 1], userId)
  /\ UNCHANGED <<mapVars, sanVars, repoVars, urlVars, ls, up, au, ac, tg, rm, dp, cp>>

\* login(), after authService.login has returned the user
LoggedIn(userId) ==
  /\ ip.pc = "on" /\ ip.logins < MaxLogins
  /\ ip' = initializeProjectsOnce([ip EXCEPT !.logins = @ + 1], userId)
  /\ UNCHANGED <<mapVars, sanVars, repoVars, urlVars, ls, up, au, ac, tg, rm, dp, cp>>

\* initializeDefaultProjects(userId) returns or throws
ProjectsSettled(userId) ==
  /\ ip.pc = "on" /\ userId \in ip.running
  /\ ip' = [ip EXCEPT !.running = @ \ {userId}]
  /\ UNCHANGED <<mapVars, sanVars, repoVars, urlVars, ls, up, au, ac, tg, rm, dp, cp>>

InitOnce ==
  /\ ip = [pc |-> "on", probe |-> "pending", initialized |-> {}, running |-> {},
           started |-> [u \in Users |-> 0], calls |-> [u \in Users |-> 0],
           events |-> 0, logins |-> 0]
  /\ configured \in BOOLEAN
  /\ tbl = "none" /\ remote = {} /\ local = <<>> /\ rscores = {} /\ lscores = <<>>
  /\ now = 1 /\ ids = 0 /\ ops = 0 /\ res = NoCall /\ prev = NoCall
  /\ MapIdle /\ SanIdle /\ UrlIdle
  /\ ls = Off /\ up = Off /\ au = Off /\ ac = Off
  /\ tg = Off /\ rm = Off /\ dp = Off /\ cp = Off

NextOnce ==
  \/ \E sess \in Users \cup {NullId} : SessionChecked(sess)
  \/ \E userId \in Users : SignedIn(userId)
  \/ \E userId \in Users : LoggedIn(userId)
  \/ \E userId \in Users : ProjectsSettled(userId)

SpecOnce == InitOnce /\ [][NextOnce]_vars

\* C27: for one AuthProvider and one user id, initializeDefaultProjects is
\* started at most once, whatever the order in which the session check, the
\* SIGNED_IN event and login() call initializeProjectsOnce
C27_StartedOnce ==
  ip.pc = "on" =>
    \A u \in Users : ip.started[u] <= 1 /\ (ip.started[u] = 1 <=> u \in ip.initialized)

\* three calls for one user arrived while the first was still running
C27_Witness ==
  /\ ip.pc = "on" /\ ip.probe = "done" /\ ip.events > 0 /\ ip.logins > 0
  /\ \E u \in Users : ip.calls[u] >= 3 /\ u \in ip.running /\ ip.started[u] = 1

-----------------------------------------------------------------------------
(* The Composer: handleFileSelect, the FileReader callbacks it installs,    *)
(* the uploads they start and handleSend.  file[f] is the progress of file  *)
(* f, attachments[f] what the attachments state holds for it, inflight the  *)
(* uploads that were unfinished when handleSend last called onSend.         *)

MaxSends == 2

Files == {"a.png", "b.png", "c.txt"}

\* file.type.startsWith('image/')
IsImage(f) == f \in {"a.png", "b.png"}

Uploading == {f \in Files : cp.file[f] = "uploading"}

\* handleFileSelect(e) with e.target.files = fs: one FileReader per image
HandleFileSelect(fs) ==
  /\ cp.pc = "on" /\ fs # {} /\ \A f \in fs : cp.file[f] = "none"
  /\ cp' = [cp EXCEPT !.file = [f \in Files |->
                         IF f \in fs
                         THEN IF IsImage(f) THEN "reading" ELSE "skipped"
                         ELSE @[f]]]
  /\ UNCHANGED <<mapVars, sanVars, repoVars, urlVars, ls, up, au, ac, tg, rm, dp, ip>>

\* reader.onload for file f, up to the await of uploadAttachment
ReaderOnload(f) ==
  /\ cp.pc = "on" /\ cp.file[f] = "reading"
  /\ cp' = IF configured
            THEN [cp EXCEPT !.attachments[f] = "local", !.file[f] = "uploading",
                            !.isUploading = TRUE]
            ELSE [cp EXCEPT !.attachments[f] = "local", !.file[f] = "done"]
  /\ UNCHANGED <<mapVars, sanVars, repoVars, urlVars, ls, up, au, ac, tg, rm, dp, ip>>

\* the rest of reader.onload for file f: uploadAttachment and createSignedUrl
\* returned (ok) or one of them threw; finally setIsUploading(false)
UploadSettled(f, ok) ==
  /\ cp.pc = "on" /\ cp.file[f] = "uploading"
  /\ cp' = [cp EXCEPT !.file[f] = "done", !.isUploading = FALSE,
                      !.attachments[f] = IF ok /\ @ = "local" THEN "stored" ELSE @]
  /\ UNCHANGED <<mapVars, sanVars, repoVars, urlVars, ls, up, au, ac, tg, rm, dp, ip>>

\* handleSend() with the given content and disabled property
HandleSend(content, disabled) ==
  /\ cp.pc = "on" /\ cp.sends < MaxSends
  /\ cp' = IF (trim(content) # <<>> \/ \E f \in Files : cp.attachments[f] # "none")
               /\ ~disabled /\ ~cp.isUploading
            THEN [cp EXCEPT !.sends = @ + 1, !.inflight = Uploading,
                            !.attachments = [f \in Files |-> "none"]]
            ELSE cp
  /\ UNCHANGED <<mapVars, sanVars, repoVars, urlVars, ls, up, au, ac, tg, rm, dp, ip>>

InitComposer ==
  /\ cp = [pc |-> "on", file |-> [f \in Files |-> "none"],
           attachments |-> [f \in Files |-> "none"], isUploading |-> FALSE,
           sends |-> 0, inflight |-> {}]
  /\ configured \in BOOLEAN
  /\ tbl = "none" /\ remote = {} /\ local = <<>> /\ rscores = {} /\ lscores = <<>>
  /\ now = 1 /\ ids = 0 /\ ops = 0 /\ res = NoCall /\ prev = NoCall
  /\ MapIdle /\ SanIdle /\ UrlIdle
  /\ ls = Off /\ up = Off /\ au = Off /\ ac = Off
  /\ tg = Off /\ rm = Off /\ dp = Off /\ ip = Off

NextComposer ==
  \/ \E fs \in SUBSET Files : HandleFileSelect(fs)
  \/ \E f \in Files : ReaderOnload(f)
  \/ \E f \in Files, ok \in BOOLEAN : UploadSettled(f, ok)
  \/ \E content \in {<<>>, <<" ">>, <<"h">>, <<" ", "h">>}, disabled \in BOOLEAN : HandleSend(content, disabled)

SpecComposer == InitComposer /\ [][NextComposer]_vars

\* C29: isUploading is true as long as an upload started by handleFileSelect
\* has not finished, and handleSend never sends while an upload is in flight
C29_NoSendWhileUploading ==
  cp.pc = "on" => /\ Uploading # {} => cp.isUploading
                  /\ cp.inflight = {}

-----------------------------------------------------------------------------
\* C30: after any sequence of generic create, update and delete calls, with
\* ids supplied by the caller or generated, and with the remote succeeding or
\* failing at each call, no two entities of the local collection have the
\* same id
C30_LocalIdsUnique ==
  \A i, j \in DOMAIN local : local[i].id = local[j].id => i = j

====
